---- MODULE Spec2Model ----
(***************************************************************************)
(* Hermes Bridge (src/bridge/hermes_bridge.py): the policy gate, the       *)
(* session tracker, the CLI invocation protocol and the mediation          *)
(* endpoints, as a state machine.                                          *)
(*                                                                         *)
(* Time is counted in clock ticks; HourTicks ticks make the rolling hour   *)
(* of _prune (3600 s).  Text is modelled by strings, identifiers are built *)
(* by string concatenation as the f-strings of the source build them.      *)
(***************************************************************************)
EXTENDS Integers, Sequences, FiniteSets, TLC

VARIABLES
    now,          \* time.time(), in ticks
    hour0,        \* local hour of day (QUIET_TZ) at tick 0
    policy,       \* _policy, the loaded policy document
    rate_counts,  \* _rate_counts: caller -> list of timestamps
    pg_up,        \* whether get_pg() returns a connection
    sessions,     \* table hermes_sessions: id -> row
    next_uuid,    \* the next value uuid.uuid4() returns
    inflight,     \* handlers suspended on their subprocess or HTTP call
    procs,        \* subprocesses started: pid -> "running" | "exited" | "killed"
    audit,        \* table hermes_audit_log (and its JSONL mirror)
    last,         \* the response of the handler that answered last
    ncalls,       \* number of requests received
    accepted,     \* history: caller -> timestamps of every record_call
    gate,         \* history: the latest evaluation of enforce_policy
    dispatched,   \* history: <<caller, target>> of every dispatch
    handles,      \* history: <<session id, handle>> of every CLI command line
    ran,          \* history: what the subprocess of the latest finished invocation did
    outbox,       \* table hermes_event_outbox: id -> row
    next_event,   \* the next value of the SERIAL column id
    drain,        \* _drain_outbox: where the worker is, and its local rows
    posts         \* history: event id -> the POSTs the worker issued for it

outboxVars == <<outbox, next_event, drain, posts>>

vars == <<now, hour0, policy, rate_counts, pg_up, sessions, next_uuid, inflight,
          procs, audit, last, ncalls, accepted, gate, dispatched, handles, ran,
          outboxVars>>

-----------------------------------------------------------------------------
(* Bounds of the model *)

HourTicks == 2
MaxTime == 2
MaxCalls == 3
MaxInflight == 2
MaxEvents == 2
MaxHistory == 5

-----------------------------------------------------------------------------
(* Inputs *)

DirectCallers == {"alice", "mallory"}
Console == {"dashboard"}
Workflows == {"wf"}
Callers == DirectCallers \cup Console \cup {"n8n:" \o w : w \in Workflows}
Agents == {"bob"}
Targets == {"claude", "n8n"} \cup Agents
Priorities == {"normal", "critical"}
Purposes == {"general"}
StartHours == {1, 7, 22}

-----------------------------------------------------------------------------
(* Policy document *)

AllPriorities == {"low", "normal", "high", "critical"}

\* get_agent_limits: the default of an unconfigured caller
DefaultLimits ==
    [keys |-> {"calls_per_hour", "max_cost_per_call_usd", "allowed_targets",
               "priority_levels"},
     calls_per_hour |-> 5,
     max_cost_cents |-> 10,
     allowed_targets |-> {},
     priority_levels |-> {"low", "normal"},
     quiet_hours_exempt |-> FALSE]

\* The policy document after a failed load (and before any load): {}
EmptyPolicy ==
    [keys |-> {},
     global_cph |-> 0,
     per_agent |-> [c \in {} |-> DefaultLimits],
     quiet_start |-> <<0, 0>>,
     quiet_end |-> <<0, 0>>,
     event_webhooks |-> [x \in {} |-> ""]]

\* A policy document as hermes_policy.json holds it: alice may call once an
\* hour and may ask at any priority, the dashboard is configured too, the
\* global ceiling is two calls an hour, quiet hours are 23:00-08:00.
PolicyA ==
    [keys |-> {"global_limits", "per_agent", "quiet_hours"},
     global_cph |-> 2,
     per_agent |->
        [c \in {"alice", "dashboard"} |->
            IF c = "alice"
            THEN [keys |-> {"calls_per_hour", "allowed_targets", "priority_levels"},
                  calls_per_hour |-> 1,
                  max_cost_cents |-> 0,
                  allowed_targets |-> {"claude", "n8n"},
                  priority_levels |-> AllPriorities,
                  quiet_hours_exempt |-> FALSE]
            ELSE [keys |-> {"calls_per_hour", "allowed_targets", "priority_levels"},
                  calls_per_hour |-> 2,
                  max_cost_cents |-> 0,
                  allowed_targets |-> {"claude", "n8n", "bob"},
                  priority_levels |-> AllPriorities,
                  quiet_hours_exempt |-> FALSE]],
     quiet_start |-> <<23, 0>>,
     quiet_end |-> <<8, 0>>,
     event_webhooks |-> [x \in {} |-> ""]]

Policies == {EmptyPolicy, PolicyA}

\* get_agent_limits closing the gate for an unconfigured caller
GetAgentLimits_FailClosed(pol, c) ==
    IF "per_agent" \in pol.keys /\ c \in DOMAIN pol.per_agent
    THEN pol.per_agent[c]
    ELSE [DefaultLimits EXCEPT !.calls_per_hour = 0]

\* get_agent_limits(caller_id)
GetAgentLimits(pol, c) ==
    IF "per_agent" \in pol.keys /\ c \in DOMAIN pol.per_agent
    THEN pol.per_agent[c]
    ELSE DefaultLimits

\* agent_limits.get("calls_per_hour", 5)
CallsPerHour(lim) ==
    IF "calls_per_hour" \in lim.keys THEN lim.calls_per_hour ELSE 5

\* agent_limits.get("priority_levels", ["low", "normal"])
PriorityLevels(lim) ==
    IF "priority_levels" \in lim.keys THEN lim.priority_levels ELSE {"low", "normal"}

\* agent_limits.get("quiet_hours_exempt", False)
QuietExempt(lim) ==
    IF "quiet_hours_exempt" \in lim.keys THEN lim.quiet_hours_exempt ELSE FALSE

\* The allowed_targets entry of the caller's limits
AllowedTargets(lim) ==
    IF "allowed_targets" \in lim.keys THEN lim.allowed_targets ELSE {}

\* _policy.get("global_limits", {}).get("calls_per_hour", 60)
GlobalLimit(pol) ==
    IF "global_limits" \in pol.keys THEN pol.global_cph ELSE 60

-----------------------------------------------------------------------------
(* Rate limiter *)

RECURSIVE SumLen(_, _)
SumLen(rc, S) ==
    IF S = {} THEN 0
    ELSE LET c == CHOOSE x \in S : TRUE
         IN Len(rc[c]) + SumLen(rc, S \ {c})

\* _prune dropping every timestamp of the caller
Prune_All(rc, c, t) == [rc EXCEPT ![c] = <<>>]

\* _prune(caller_id): keep the timestamps newer than one hour
Prune(rc, c, t) ==
    [rc EXCEPT ![c] = SelectSeq(@, LAMBDA x : x > t - HourTicks)]

Reason(kind, who, n, prio) ==
    [kind |-> kind, who |-> who, limit |-> n, priority |-> prio]

OkReason == Reason("ok", "", 0, "")

\* check_rate_limit with the per-agent comparison off by one
CheckRateLimit_AgentOffByOne(pol, rc, t, c) ==
    LET pruned == Prune(rc, c, t)
        global_limit == GlobalLimit(pol)
        total_calls == SumLen(pruned, DOMAIN pruned)
        agent_limit == CallsPerHour(GetAgentLimits(pol, c))
    IN  IF total_calls >= global_limit
        THEN [allowed |-> FALSE,
              reason |-> Reason("global_rate", "", global_limit, ""),
              rc |-> pruned]
        ELSE IF Len(pruned[c]) > agent_limit
        THEN [allowed |-> FALSE,
              reason |-> Reason("agent_rate", c, agent_limit, ""),
              rc |-> pruned]
        ELSE [allowed |-> TRUE, reason |-> OkReason, rc |-> pruned]

\* check_rate_limit(caller_id): (allowed, reason), and _rate_counts as
\* _prune leaves it
CheckRateLimit(pol, rc, t, c) ==
    LET pruned == Prune(rc, c, t)
        global_limit == GlobalLimit(pol)
        total_calls == SumLen(pruned, DOMAIN pruned)
        agent_limit == CallsPerHour(GetAgentLimits(pol, c))
    IN  IF total_calls >= global_limit
        THEN [allowed |-> FALSE,
              reason |-> Reason("global_rate", "", global_limit, ""),
              rc |-> pruned]
        ELSE IF Len(pruned[c]) >= agent_limit
        THEN [allowed |-> FALSE,
              reason |-> Reason("agent_rate", c, agent_limit, ""),
              rc |-> pruned]
        ELSE [allowed |-> TRUE, reason |-> OkReason, rc |-> pruned]

\* record_call(caller_id)
RecordCall(rc, c, t) == [rc EXCEPT ![c] = Append(@, t)]

-----------------------------------------------------------------------------
(* Quiet hours *)

\* datetime.now(ZoneInfo(QUIET_TZ)).hour
Hour(h0, t) == (h0 + (t \div HourTicks)) % 24

\* int(qh.get("start", "23:00").split(":")[0])
QuietStart(pol) ==
    IF "quiet_hours" \in pol.keys THEN pol.quiet_start[1] ELSE 23

\* int(qh.get("end", "08:00").split(":")[0])
QuietEnd(pol) ==
    IF "quiet_hours" \in pol.keys THEN pol.quiet_end[1] ELSE 8

\* is_quiet_hours with the end hour inside the window
IsQuietHours_EndInclusive(pol, hour) ==
    LET start == QuietStart(pol)
        end == QuietEnd(pol)
    IN  IF start > end
        THEN hour >= start \/ hour <= end
        ELSE start <= hour /\ hour <= end

\* is_quiet_hours()
IsQuietHours(pol, hour) ==
    LET start == QuietStart(pol)
        end == QuietEnd(pol)
    IN  IF start > end
        THEN hour >= start \/ hour < end
        ELSE start <= hour /\ hour < end

-----------------------------------------------------------------------------
(* Policy enforcement *)

\* enforce_policy without the exception for priority critical
EnforcePolicy_NoOverride(pol, rc, t, hour, c, prio) ==
    LET agent_limits == GetAgentLimits(pol, c)
        is_exempt == QuietExempt(agent_limits) \/ c = "dashboard"
    IN  IF IsQuietHours(pol, hour) /\ ~is_exempt
        THEN [denied |-> TRUE, reason |-> Reason("quiet_hours", "", 0, ""), rc |-> rc]
        ELSE LET r == CheckRateLimit(pol, rc, t, c)
             IN  IF ~r.allowed
                 THEN [denied |-> TRUE, reason |-> r.reason, rc |-> r.rc]
                 ELSE IF prio \notin PriorityLevels(agent_limits)
                 THEN [denied |-> TRUE,
                       reason |-> Reason("priority", c, 0, prio),
                       rc |-> r.rc]
                 ELSE [denied |-> FALSE, reason |-> OkReason, rc |-> r.rc]

\* enforce_policy with the priority check placed before the rate limit
EnforcePolicy_PriorityFirst(pol, rc, t, hour, c, prio) ==
    LET agent_limits == GetAgentLimits(pol, c)
        is_exempt == QuietExempt(agent_limits) \/ c = "dashboard"
    IN  IF IsQuietHours(pol, hour) /\ prio # "critical" /\ ~is_exempt
        THEN [denied |-> TRUE, reason |-> Reason("quiet_hours", "", 0, ""), rc |-> rc]
        ELSE IF prio \notin PriorityLevels(agent_limits)
        THEN [denied |-> TRUE, reason |-> Reason("priority", c, 0, prio), rc |-> rc]
        ELSE LET r == CheckRateLimit(pol, rc, t, c)
             IN  IF ~r.allowed
                 THEN [denied |-> TRUE, reason |-> r.reason, rc |-> r.rc]
                 ELSE [denied |-> FALSE, reason |-> OkReason, rc |-> r.rc]

\* enforce_policy(caller_id, endpoint, priority): the denial (or none), and
\* _rate_counts as the check leaves it
EnforcePolicy(pol, rc, t, hour, c, prio) ==
    LET agent_limits == GetAgentLimits(pol, c)
        is_exempt == QuietExempt(agent_limits) \/ c = "dashboard"
    IN  IF IsQuietHours(pol, hour) /\ prio # "critical" /\ ~is_exempt
        THEN [denied |-> TRUE, reason |-> Reason("quiet_hours", "", 0, ""), rc |-> rc]
        ELSE LET r == CheckRateLimit(pol, rc, t, c)
             IN  IF ~r.allowed
                 THEN [denied |-> TRUE, reason |-> r.reason, rc |-> r.rc]
                 ELSE IF prio \notin PriorityLevels(agent_limits)
                 THEN [denied |-> TRUE,
                       reason |-> Reason("priority", c, 0, prio),
                       rc |-> r.rc]
                 ELSE [denied |-> FALSE, reason |-> OkReason, rc |-> r.rc]

-----------------------------------------------------------------------------
(* Text.  A text is a string followed by pad filler characters, so that a  *)
(* text longer than a cut (500, 2000) can be written down.                 *)

T(s) == [body |-> s, pad |-> 0]
Filler(s, n) == [body |-> s, pad |-> n]
TLen(x) == Len(x.body) + x.pad

\* x[:n], for a text whose string part is shorter than n
Cut(x, n) ==
    IF TLen(x) <= n THEN x
    ELSE [body |-> x.body, pad |-> n - Len(x.body)]

NoText == T("")

-----------------------------------------------------------------------------
(* JSON values, as json.loads returns them.  py is str(value).             *)

NoDoc == [t |-> "none", s |-> "", py |-> "", kv |-> <<>>, el |-> <<>>]
JNull == [t |-> "null", s |-> "", py |-> "None", kv |-> <<>>, el |-> <<>>]
JStr(s) == [t |-> "str", s |-> s, py |-> s, kv |-> <<>>, el |-> <<>>]
JNum(py) == [t |-> "num", s |-> "", py |-> py, kv |-> <<>>, el |-> <<>>]
JArr(el, py) == [t |-> "arr", s |-> "", py |-> py, kv |-> <<>>, el |-> el]
JObj(kv, py) == [t |-> "obj", s |-> "", py |-> py, kv |-> kv, el |-> <<>>]
KV(k, v) == [k |-> k, v |-> v]

\* key in obj
Has(o, k) == \E i \in 1..Len(o.kv) : o.kv[i].k = k

\* obj.get(key, default)
Get(o, k, default) ==
    IF Has(o, k)
    THEN o.kv[CHOOSE i \in 1..Len(o.kv) : o.kv[i].k = k].v
    ELSE default

\* bool(value)
Truthy(v) ==
    CASE v.t = "str" -> v.s # ""
      [] v.t = "num" -> v.py # "0"
      [] v.t = "arr" -> v.el # <<>>
      [] v.t = "obj" -> v.kv # <<>>
      [] OTHER -> FALSE

\* "\n".join(texts), texts a list of str
RECURSIVE JoinLines(_)
JoinLines(ss) ==
    IF ss = <<>> THEN ""
    ELSE IF Len(ss) = 1 THEN ss[1]
    ELSE ss[1] \o "\n" \o JoinLines(Tail(ss))

-----------------------------------------------------------------------------
(* Standard output of a subprocess, decoded and stripped: a list of lines. *)
(* A line is a line of text or one JSON document; lead is what the line    *)
(* starts with, and only the last line of an output carries filler.        *)

TextLine(s, lead) == [raw |-> s, lead |-> lead, doc |-> NoDoc, pad |-> 0]
LongLine(s, n) == [raw |-> s, lead |-> "other", doc |-> NoDoc, pad |-> n]
JsonLine(s, v) ==
    [raw |-> s, lead |-> IF v.t = "obj" THEN "{" ELSE "other", doc |-> v, pad |-> 0]

\* The whole output as one text
RawText(lines) ==
    [body |-> JoinLines([i \in 1..Len(lines) |-> lines[i].raw]),
     pad |-> IF lines = <<>> THEN 0 ELSE lines[Len(lines)].pad]

\* raw.find("\n{") and the two assignments of json_str: the lines json.loads
\* is given
JsonStr(lines) ==
    LET hits == {i \in 2..Len(lines) : lines[i].lead = "{"}
    IN  IF hits # {}
        THEN SubSeq(lines, CHOOSE i \in hits : \A j \in hits : i <= j, Len(lines))
        ELSE lines

\* json.loads(json_str): the document, or NoDoc for json.JSONDecodeError
JsonLoads(lines) ==
    IF Len(lines) = 1 THEN lines[1].doc ELSE NoDoc

-----------------------------------------------------------------------------
(* Response extraction *)

CLAUDE_TIMEOUT == 120
AGENT_TIMEOUT == 120

\* The "response" entry of a result: None, a str, or another value
NoneResp == [kind |-> "none", text |-> NoText]
TextResp(x) == [kind |-> "text", text |-> x]
ValueResp(v) ==
    IF v.t = "str" THEN TextResp(T(v.s))
    ELSE IF v.t = "null" THEN NoneResp
    ELSE [kind |-> "value", text |-> T(v.py)]

Parsed(resp, cost) == [exc |-> "", response |-> resp, cost |-> cost]
Raised(e) == [exc |-> e, response |-> NoneResp, cost |-> "0.0"]

\* [p["text"] for p in payloads if <p is a dict> and p.get("text")]
PayloadTexts(payloads) ==
    LET picked == SelectSeq(payloads.el,
                            LAMBDA p : p.t = "obj" /\ Truthy(Get(p, "text", JNull)))
    IN  [i \in 1..Len(picked) |-> Get(picked[i], "text", JNull)]

AllStr(vals) == \A i \in 1..Len(vals) : vals[i].t = "str"
Strs(vals) == [i \in 1..Len(vals) |-> vals[i].s]

\* invoke_claude, lines 553-575: from the output of a process that exited
\* with code 0 to the response text and cost, or the exception that leaves
\* the try block
ParseClaude(lines) ==
    LET raw == RawText(lines)
        json_str == JsonStr(lines)
        data == JsonLoads(json_str)
    IN  IF data.t = "none" THEN Parsed(TextResp(Cut(raw, 2000)), "0.0")
        ELSE IF data.t # "obj" THEN Raised("AttributeError")
        ELSE
          LET result == Get(data, "result", JStr(RawText(json_str).body))
              cost == Get(data, "cost_usd", JNum("0.0")).py
          IN  IF result.t = "obj"
              THEN LET payloads == Get(result, "payloads", JArr(<<>>, "[]"))
                       texts == PayloadTexts(payloads)
                   IN  IF payloads.t \notin {"arr", "obj", "str"} THEN Raised("TypeError")
                       ELSE IF texts # <<>>
                       THEN IF AllStr(texts)
                            THEN Parsed(TextResp(T(JoinLines(Strs(texts)))), cost)
                            ELSE Raised("TypeError")
                       ELSE Parsed(TextResp(T(
                              Get(result, "text",
                                  Get(result, "message", JStr("No response"))).py)), cost)
              ELSE Parsed(TextResp(T(result.py)), cost)

\* The elements of payloads on which p.get raises: every element that is no dict
BadFragment(payloads) ==
    \/ payloads.t = "arr" /\ \E i \in 1..Len(payloads.el) : payloads.el[i].t # "obj"
    \/ payloads.t = "obj" /\ payloads.kv # <<>>
    \/ payloads.t = "str" /\ payloads.s # ""

\* invoke_agent, line 645: the lines the last-resort filter keeps
KeptLines(lines) ==
    SelectSeq(lines, LAMBDA l : l.lead \notin {"{", "}", "\"", "[plugins]"})

\* invoke_agent, lines 623-646
ParseAgent(lines) ==
    LET raw == RawText(lines)
        data == JsonLoads(JsonStr(lines))
        none == JStr("No response text")
    IN  IF data.t = "none"
        THEN LET kept == RawText(KeptLines(lines))
             IN  Parsed(TextResp(IF TLen(kept) > 0 THEN kept ELSE Cut(raw, 500)), "0.0")
        ELSE IF data.t \in {"num", "null"} THEN Raised("TypeError")
        ELSE IF data.t # "obj" THEN Raised("AttributeError")
        ELSE IF Get(data, "result", JNull).t = "obj"
        THEN LET payloads == Get(Get(data, "result", JNull), "payloads", JArr(<<>>, "[]"))
                 texts == PayloadTexts(payloads)
             IN  IF payloads.t \in {"num", "null"} THEN Raised("TypeError")
                 ELSE IF BadFragment(payloads) THEN Raised("AttributeError")
                 ELSE IF texts # <<>>
                 THEN IF AllStr(texts)
                      THEN Parsed(TextResp(T(JoinLines(Strs(texts)))), "0.0")
                      ELSE Raised("TypeError")
                 ELSE Parsed(ValueResp(Get(data, "summary", none)), "0.0")
        ELSE Parsed(ValueResp(
               Get(data, "response", Get(data, "output", Get(data, "text", none)))), "0.0")

\* What the subprocess does, as the handler sees it
NoRun == [kind |-> "none", rc |-> 0, stderr |-> NoText, stdout |-> <<>>]
Timeout == [kind |-> "timeout", rc |-> 0, stderr |-> NoText, stdout |-> <<>>]
Exit(rc, err, out) == [kind |-> "exit", rc |-> rc, stderr |-> err, stdout |-> out]

Result(branch, resp, err, cost, sid) ==
    [branch |-> branch, response |-> resp, error |-> err, cost |-> cost,
     session_id |-> sid]

\* invoke_claude, lines 537-588: the dict returned for a run of the CLI
InvokeClaudeResult(run, claude_sid) ==
    IF run.kind = "timeout"
    THEN Result("timeout", NoneResp,
                T("Timeout after " \o ToString(CLAUDE_TIMEOUT) \o "s"), "0.0", claude_sid)
    ELSE IF run.rc # 0
    THEN Result("process_failed", NoneResp, Cut(run.stderr, 500), "0.0", claude_sid)
    ELSE LET p == ParseClaude(run.stdout)
         IN  IF p.exc # ""
             THEN Result("exception", NoneResp, T(p.exc), "0.0", claude_sid)
             ELSE Result("parsed", p.response, NoText, p.cost, claude_sid)

\* invoke_agent, lines 608-655
InvokeAgentResult(run) ==
    IF run.kind = "timeout"
    THEN Result("timeout", NoneResp,
                T("Timeout after " \o ToString(AGENT_TIMEOUT) \o "s"), "0.0", "")
    ELSE IF run.rc # 0
    THEN Result("process_failed", NoneResp, Cut(run.stderr, 500), "0.0", "")
    ELSE LET p == ParseAgent(run.stdout)
         IN  IF p.exc # ""
             THEN Result("exception", NoneResp, T(p.exc), "0.0", "")
             ELSE Result("parsed", p.response, NoText, "0.0", "")

-----------------------------------------------------------------------------
(* Session tracker *)

\* f"hermes-{caller_id}-{target}-{purpose}"
SessionId(c, target, purpose) ==
    "hermes-" \o c \o "-" \o target \o "-" \o purpose

\* str(uuid.uuid4()): a value never returned before
Uuid4(n) == "uuid-" \o ToString(n)

\* The row INSERT INTO hermes_sessions writes, with the column defaults
NewSession(c, target, stype, claude_sid, t) ==
    [caller_id |-> c, target |-> target, session_type |-> stype,
     claude_session_id |-> claude_sid, last_used |-> t,
     message_count |-> 0]

GetOrCreateSession_CountFromOne(sess, up, n, t, c, target, stype, purpose) ==
    LET session_id == SessionId(c, target, purpose)
    IN  IF ~up
        THEN [session_id |-> session_id, sessions |-> sess, next_uuid |-> n]
        ELSE IF session_id \in DOMAIN sess
        THEN [session_id |-> session_id,
              sessions |-> [sess EXCEPT ![session_id].last_used = t,
                                        ![session_id].message_count = @ + 1],
              next_uuid |-> n]
        ELSE LET claude_sid == IF stype = "claude" THEN Uuid4(n) ELSE ""
                 row == [NewSession(c, target, stype, claude_sid, t)
                             EXCEPT !.message_count = 1]
             IN  [session_id |-> session_id,
                  sessions |-> [x \in DOMAIN sess \cup {session_id} |->
                                   IF x = session_id THEN row ELSE sess[x]],
                  next_uuid |-> IF stype = "claude" THEN n + 1 ELSE n]

\* get_or_create_session(caller_id, target, session_type, purpose); the
\* column claude_session_id is "" for NULL
GetOrCreateSession(sess, up, n, t, c, target, stype, purpose) ==
    LET session_id == SessionId(c, target, purpose)
    IN  IF ~up
        THEN [session_id |-> session_id, sessions |-> sess, next_uuid |-> n]
        ELSE IF session_id \in DOMAIN sess
        THEN [session_id |-> session_id,
              sessions |-> [sess EXCEPT ![session_id].last_used = t,
                                        ![session_id].message_count = @ + 1],
              next_uuid |-> n]
        ELSE LET claude_sid == IF stype = "claude" THEN Uuid4(n) ELSE ""
                 row == NewSession(c, target, stype, claude_sid, t)
             IN  [session_id |-> session_id,
                  sessions |-> [x \in DOMAIN sess \cup {session_id} |->
                                   IF x = session_id THEN row ELSE sess[x]],
                  next_uuid |-> IF stype = "claude" THEN n + 1 ELSE n]

\* get_claude_session_id(hermes_session_id), "" for None
GetClaudeSessionId(sess, up, session_id) ==
    IF ~up THEN ""
    ELSE IF session_id \in DOMAIN sess THEN sess[session_id].claude_session_id
    ELSE ""

\* invoke_claude, lines 507-523: the handle of the command line, minted and
\* stored when get_claude_session_id returns none; read_up and write_up tell
\* whether Postgres answers in get_claude_session_id (line 507) and in the
\* get_pg() that precedes the UPDATE (line 510)
ClaudeHandleStore(sess, read_up, write_up, n, session_id) ==
    LET stored == GetClaudeSessionId(sess, read_up, session_id)
    IN  IF stored # ""
        THEN [claude_sid |-> stored, sessions |-> sess, next_uuid |-> n]
        ELSE [claude_sid |-> Uuid4(n),
              sessions |-> IF write_up /\ session_id \in DOMAIN sess
                           THEN [sess EXCEPT ![session_id].claude_session_id = Uuid4(n)]
                           ELSE sess,
              next_uuid |-> n + 1]

\* The same with Postgres in one state throughout
ClaudeHandle(sess, up, n, session_id) == ClaudeHandleStore(sess, up, up, n, session_id)

-----------------------------------------------------------------------------
(* Event outbox: rows, destination, and the state of the drain worker *)

N8N_BASE == "http://localhost:5678"
MAX_ATTEMPTS == 5
BATCH_SIZE == 20

EventTypes == {"task.created", "agent.response"}

\* webhooks.get(event_type, webhooks.get("_default", "/webhook/hermes-events"))
\* with webhooks = _policy.get("event_webhooks", {}), prefixed with N8N_BASE
WebhookUrl(pol, event_type) ==
    LET webhooks == IF "event_webhooks" \in pol.keys THEN pol.event_webhooks
                    ELSE [x \in {} |-> ""]
        path == IF event_type \in DOMAIN webhooks THEN webhooks[event_type]
                ELSE IF "_default" \in DOMAIN webhooks THEN webhooks["_default"]
                ELSE "/webhook/hermes-events"
    IN  N8N_BASE \o path

\* The row INSERT INTO hermes_event_outbox writes, with the column defaults;
\* delivered_at is -1 for NULL
NewEvent(event_type, webhook_url) ==
    [event_type |-> event_type, webhook_url |-> webhook_url, status |-> "pending",
     attempts |-> 0, last_error |-> "", delivered_at |-> -1]

\* A finite set of ids in ascending order (ORDER BY created_at)
RECURSIVE Ascending(_)
Ascending(S) ==
    IF S = {} THEN <<>>
    ELSE LET m == CHOOSE x \in S : \A y \in S : x <= y
         IN  <<m>> \o Ascending(S \ {m})

SelectPending_AnyStatus(box) ==
    LET ids == Ascending({id \in DOMAIN box : box[id].attempts < MAX_ATTEMPTS})
        n == IF Len(ids) < BATCH_SIZE THEN Len(ids) ELSE BATCH_SIZE
    IN  [i \in 1..n |-> [id |-> ids[i], webhook_url |-> box[ids[i]].webhook_url,
                         attempts |-> box[ids[i]].attempts]]

SelectPending_NewestFirst(box) ==
    LET asc == Ascending({id \in DOMAIN box : /\ box[id].status = "pending"
                                              /\ box[id].attempts < MAX_ATTEMPTS})
        ids == [i \in 1..Len(asc) |-> asc[Len(asc) + 1 - i]]
        n == IF Len(ids) < BATCH_SIZE THEN Len(ids) ELSE BATCH_SIZE
    IN  [i \in 1..n |-> [id |-> ids[i], webhook_url |-> box[ids[i]].webhook_url,
                         attempts |-> box[ids[i]].attempts]]

\* The SELECT of a drain cycle: the rows still to deliver, oldest first
SelectPending(box) ==
    LET ids == Ascending({id \in DOMAIN box : /\ box[id].status = "pending"
                                              /\ box[id].attempts < MAX_ATTEMPTS})
        n == IF Len(ids) < BATCH_SIZE THEN Len(ids) ELSE BATCH_SIZE
    IN  [i \in 1..n |-> [id |-> ids[i], webhook_url |-> box[ids[i]].webhook_url,
                         attempts |-> box[ids[i]].attempts]]

\* The worker between two cycles; rows and i are its local variables, done
\* tells how the latest cycle ended
Sleeping(rows, i, broke, done) ==
    [pc |-> "sleep", rows |-> rows, i |-> i, broke |-> broke, done |-> done]
Posting(rows, i) ==
    [pc |-> "post", rows |-> rows, i |-> i, broke |-> FALSE, done |-> "none"]

\* What is remembered of the POSTs issued for an event
NoPosts ==
    [urls |-> {}, ok_urls |-> {}, resolved |-> {}, ahead_of |-> {},
     after_delivered |-> FALSE, in_cycle |-> FALSE, twice |-> FALSE,
     answer |-> [kind |-> "none", code |-> 0]]

-----------------------------------------------------------------------------
(* State *)

NoResult == Result("", NoneResp, NoText, "0.0", "")

\* What a handler answers: the status code, and the detail or body
Response(rid, c, endpoint, sid, status, reason, res, detail) ==
    [rid |-> rid, caller |-> c, endpoint |-> endpoint, session |-> sid, status |-> status,
     reason |-> reason, branch |-> res.branch, response |-> res.response,
     detail |-> detail, cost |-> res.cost, handle |-> res.session_id]

Gate(rid, c, endpoint, target, prio, t, e) ==
    [rid |-> rid, caller |-> c, endpoint |-> endpoint, target |-> target,
     priority |-> prio, t |-> t, denied |-> e.denied, reason |-> e.reason]

\* audit_log: one row in hermes_audit_log when Postgres answers, one line in
\* the JSONL file (audit.log_to_jsonl defaults to true)
AuditLog(a, up) ==
    [pg |-> IF up THEN a.pg + 1 ELSE a.pg, jsonl |-> a.jsonl + 1]

InitWith(pols, hours) ==
    /\ now = 0
    /\ hour0 \in hours
    /\ policy \in pols
    /\ rate_counts = [c \in Callers |-> <<>>]
    /\ pg_up = TRUE
    /\ sessions = [x \in {} |-> 0]
    /\ next_uuid = 1
    /\ inflight = {}
    /\ procs = [x \in {} |-> ""]
    /\ audit = [pg |-> 0, jsonl |-> 0]
    /\ last = Response(0, "", "", "", 0, OkReason, NoResult, NoText)
    /\ ncalls = 0
    /\ accepted = [c \in Callers |-> <<>>]
    /\ gate = Gate(0, "", "", "", "", 0, [denied |-> FALSE, reason |-> OkReason])
    /\ dispatched = {}
    /\ handles = {}
    /\ ran = NoRun
    /\ outbox = [x \in {} |-> 0]
    /\ next_event = 1
    /\ drain = Sleeping(<<>>, 0, FALSE, "none")
    /\ posts = [x \in {} |-> 0]

Init == InitWith({PolicyA}, StartHours)

\* The clock advances
Tick ==
    /\ now < MaxTime
    /\ now' = now + 1
    /\ UNCHANGED <<ran, outboxVars, hour0, policy, rate_counts, pg_up, sessions,
                   next_uuid, inflight, procs, audit, last, ncalls, accepted, gate,
                   dispatched, handles>>

-----------------------------------------------------------------------------
(* Mediation endpoints.  A handler runs without interruption up to its     *)
(* first await on the subprocess or on the HTTP call: the first action of  *)
(* a handler is the code before it, the Finish action the code after it.   *)
(* The CLI binaries are installed, so that every subprocess starts.        *)

Invocation(rid, kind, c, target, prio, purpose, session_id, claude_sid) ==
    [rid |-> rid, kind |-> kind, caller |-> c, target |-> target,
     priority |-> prio, purpose |-> purpose, session_id |-> session_id,
     claude_sid |-> claude_sid]

Started(pid) == [x \in DOMAIN procs \cup {pid} |-> IF x = pid THEN "running" ELSE procs[x]]

\* The denial branch with the denied call charged to its caller
Deny_Charged(rid, c, endpoint, e, audited) ==
    /\ rate_counts' = RecordCall(e.rc, c, now)
    /\ audit' = IF audited THEN AuditLog(audit, pg_up) ELSE audit
    /\ last' = Response(rid, c, endpoint, "", 429, e.reason, NoResult, NoText)
    /\ UNCHANGED <<sessions, next_uuid, inflight, procs, accepted, dispatched, handles>>

\* The denial branch of a handler: audit_log (not in /compact), then
\* HTTPException(429)
Deny(rid, c, endpoint, e, audited) ==
    /\ rate_counts' = e.rc
    /\ audit' = IF audited THEN AuditLog(audit, pg_up) ELSE audit
    /\ last' = Response(rid, c, endpoint, "", 429, e.reason, NoResult, NoText)
    /\ UNCHANGED <<sessions, next_uuid, inflight, procs, accepted, dispatched, handles>>

\* claude_ask, lines 916-938, to the start of the subprocess in invoke_claude.
\* Postgres is in its present state in get_or_create_session, and answers
\* (read_up, write_up) or not in the two calls of get_pg() that follow, in
\* get_claude_session_id and before the UPDATE of invoke_claude.
ClaudeAskStore(c, prio, purpose, read_up, write_up) ==
    LET rid == ncalls + 1
        e == EnforcePolicy(policy, rate_counts, now, Hour(hour0, now), c, prio)
        s == GetOrCreateSession(sessions, pg_up, next_uuid, now, c, "claude", "claude",
                                purpose)
        h == ClaudeHandleStore(s.sessions, read_up, write_up, s.next_uuid, s.session_id)
    IN  /\ ncalls < MaxCalls
        /\ Cardinality(inflight) < MaxInflight
        /\ ncalls' = rid
        /\ gate' = Gate(rid, c, "/claude/ask", "claude", prio, now, e)
        /\ IF e.denied
           THEN /\ Deny(rid, c, "/claude/ask", e, TRUE)
                /\ pg_up' = pg_up
           ELSE /\ rate_counts' = RecordCall(e.rc, c, now)
                /\ accepted' = [accepted EXCEPT ![c] = Append(@, now)]
                /\ sessions' = h.sessions
                /\ next_uuid' = h.next_uuid
                /\ handles' = handles \cup {<<s.session_id, h.claude_sid>>}
                /\ dispatched' = dispatched \cup {<<c, "claude">>}
                /\ inflight' = inflight \cup
                     {Invocation(rid, "claude", c, "claude", prio, purpose,
                                 s.session_id, h.claude_sid)}
                /\ procs' = Started(rid)
                /\ pg_up' = write_up
                /\ UNCHANGED <<audit, last>>
        /\ UNCHANGED <<ran, outboxVars, now, hour0, policy>>

\* The same with Postgres in one state throughout the handler
ClaudeAsk(c, prio, purpose) == ClaudeAskStore(c, prio, purpose, pg_up, pg_up)

\* claude_ask, line 932: req.max_cost_usd or
\* agent_limits.get("max_cost_per_call_usd", 0.50), in cents; 0 is the
\* request without max_cost_usd (None) or with 0.0
MaxCost(max_cost_usd, lim) ==
    IF max_cost_usd # 0 THEN max_cost_usd
    ELSE IF "max_cost_per_call_usd" \in lim.keys THEN lim.max_cost_cents
    ELSE 50

\* claude_ask refusing a call whose cap is below 10 cents
ClaudeAskCapped_Enforced(c, prio, purpose, max_cost_usd) ==
    LET max_cost == MaxCost(max_cost_usd, GetAgentLimits(policy, c))
    IN  max_cost >= 10 /\ ClaudeAsk(c, prio, purpose)

\* claude_ask for a request with max_cost_usd: max_cost is assigned at line
\* 932 and read nowhere
ClaudeAskCapped(c, prio, purpose, max_cost_usd) ==
    LET max_cost == MaxCost(max_cost_usd, GetAgentLimits(policy, c))
    IN  ClaudeAsk(c, prio, purpose)

\* claude_ask, lines 938-967, from the end of the subprocess
FinishClaude(r, run) ==
    LET result == InvokeClaudeResult(run, r.claude_sid)
        success == result.response.kind # "none"
    IN  /\ r \in inflight
        /\ r.kind = "claude"
        /\ inflight' = inflight \ {r}
        /\ procs' = [procs EXCEPT ![r.rid] = IF run.kind = "timeout" THEN @ ELSE "exited"]
        /\ audit' = AuditLog(audit, pg_up)
        /\ last' = Response(r.rid, r.caller, "/claude/ask", r.session_id,
                            IF success THEN 200 ELSE 502, OkReason, result,
                            IF success THEN NoText ELSE result.error)
        /\ ran' = run
        /\ UNCHANGED <<outboxVars, now, hour0, policy, rate_counts, pg_up, sessions, next_uuid,
                       ncalls, accepted, gate, dispatched, handles>>

\* claude_ask, lines 936-967, in the present state: the status code and
\* the body (or the detail of the 502) that caller c is answered for a run
\* of the CLI, with the store reachable (up) or not during the call
ClaudeAnswer(up, c, purpose, run) ==
    LET s == GetOrCreateSession(sessions, up, next_uuid, now, c, "claude", "claude",
                                purpose)
        h == ClaudeHandle(s.sessions, up, s.next_uuid, s.session_id)
        result == InvokeClaudeResult(run, h.claude_sid)
    IN  IF result.response.kind # "none"
        THEN [status |-> 200, response |-> result.response,
              session_id |-> s.session_id, claude_session_id |-> result.session_id,
              cost_usd |-> result.cost, detail |-> NoText]
        ELSE [status |-> 502, response |-> NoneResp, session_id |-> "",
              claude_session_id |-> "", cost_usd |-> "0.0", detail |-> result.error]

\* agent_ask, lines 976-997, to the start of the subprocess in invoke_agent
AgentAsk(c, target_agent, prio, purpose) ==
    LET rid == ncalls + 1
        e == EnforcePolicy(policy, rate_counts, now, Hour(hour0, now), c, prio)
        s == GetOrCreateSession(sessions, pg_up, next_uuid, now, c, target_agent,
                                "agent", purpose)
    IN  /\ ncalls < MaxCalls
        /\ Cardinality(inflight) < MaxInflight
        /\ ncalls' = rid
        /\ gate' = Gate(rid, c, "/agent/ask", target_agent, prio, now, e)
        /\ IF e.denied
           THEN Deny(rid, c, "/agent/ask", e, TRUE)
           ELSE /\ rate_counts' = RecordCall(e.rc, c, now)
                /\ accepted' = [accepted EXCEPT ![c] = Append(@, now)]
                /\ sessions' = s.sessions
                /\ next_uuid' = s.next_uuid
                /\ handles' = handles \cup {<<s.session_id, s.session_id>>}
                /\ dispatched' = dispatched \cup {<<c, target_agent>>}
                /\ inflight' = inflight \cup
                     {Invocation(rid, "agent", c, target_agent, prio, purpose,
                                 s.session_id, s.session_id)}
                /\ procs' = Started(rid)
                /\ UNCHANGED <<audit, last>>
        /\ UNCHANGED <<ran, outboxVars, now, hour0, policy, pg_up>>

\* agent_ask, lines 997-1022, from the end of the subprocess; the detail of
\* the 502 is result.get("error", "Agent invocation failed")
FinishAgent(r, run) ==
    LET result == InvokeAgentResult(run)
        success == result.response.kind # "none"
    IN  /\ r \in inflight
        /\ r.kind = "agent"
        /\ inflight' = inflight \ {r}
        /\ procs' = [procs EXCEPT ![r.rid] = IF run.kind = "timeout" THEN @ ELSE "exited"]
        /\ audit' = AuditLog(audit, pg_up)
        /\ last' = Response(r.rid, r.caller, "/agent/ask", r.session_id,
                            IF success THEN 200 ELSE 502, OkReason, result,
                            IF success THEN NoText
                            ELSE IF result.branch = "parsed"
                                 THEN T("Agent invocation failed")
                                 ELSE result.error)
        /\ ran' = run
        /\ UNCHANGED <<outboxVars, now, hour0, policy, rate_counts, pg_up, sessions, next_uuid,
                       ncalls, accepted, gate, dispatched, handles>>

\* n8n_webhook_receiver with one caller id for every workflow
N8nWebhookReceiver_OneCaller(source_workflow, target, prio) ==
    IF target = "claude"
    THEN ClaudeAsk("n8n:a", prio, "n8n-callback-" \o source_workflow)
    ELSE AgentAsk("n8n:a", target, prio, "n8n-callback-" \o source_workflow)

\* n8n_webhook_receiver: the callback of a workflow, re-dispatched
N8nWebhookReceiver(source_workflow, target, prio) ==
    IF target = "claude"
    THEN ClaudeAsk("n8n:" \o source_workflow, prio, "n8n-callback-" \o source_workflow)
    ELSE AgentAsk("n8n:" \o source_workflow, target, prio,
                  "n8n-callback-" \o source_workflow)

\* What the POST to the workflow engine ends with
HttpStatus(code) == [kind |-> "status", code |-> code]
ConnectError == [kind |-> "connect_error", code |-> 0]
OtherError == [kind |-> "error", code |-> 0]

\* n8n_trigger, lines 1028-1050, to the POST
N8nTrigger(c, prio) ==
    LET rid == ncalls + 1
        e == EnforcePolicy(policy, rate_counts, now, Hour(hour0, now), c, prio)
    IN  /\ ncalls < MaxCalls
        /\ Cardinality(inflight) < MaxInflight
        /\ ncalls' = rid
        /\ gate' = Gate(rid, c, "/n8n/trigger", "n8n", prio, now, e)
        /\ IF e.denied
           THEN Deny(rid, c, "/n8n/trigger", e, TRUE)
           ELSE /\ rate_counts' = RecordCall(e.rc, c, now)
                /\ accepted' = [accepted EXCEPT ![c] = Append(@, now)]
                /\ dispatched' = dispatched \cup {<<c, "n8n">>}
                /\ inflight' = inflight \cup
                     {Invocation(rid, "n8n", c, "n8n", prio, "", "", "")}
                /\ UNCHANGED <<sessions, next_uuid, procs, audit, last, handles>>
        /\ UNCHANGED <<ran, outboxVars, now, hour0, policy, pg_up>>

\* n8n_trigger giving the charge back when the workflow engine is
\* unreachable
FinishN8n_Refund(r, http) ==
    /\ r \in inflight
    /\ r.kind = "n8n"
    /\ inflight' = inflight \ {r}
    /\ audit' = IF http.kind = "error" THEN audit ELSE AuditLog(audit, pg_up)
    /\ last' = Response(r.rid, r.caller, "/n8n/trigger", "",
                        IF http.kind = "connect_error" THEN 503
                        ELSE IF http.kind = "error" THEN 500
                        ELSE IF http.code < 400 THEN 200 ELSE http.code,
                        OkReason, NoResult, NoText)
    /\ rate_counts' = IF http.kind = "connect_error" /\ rate_counts[r.caller] # <<>>
                      THEN [rate_counts EXCEPT ![r.caller] = SubSeq(@, 1, Len(@) - 1)]
                      ELSE rate_counts
    /\ UNCHANGED <<ran, outboxVars, now, hour0, policy, pg_up, sessions, next_uuid, procs,
                   ncalls, accepted, gate, dispatched, handles>>

\* n8n_trigger, lines 1050-1097, from the answer to the POST
FinishN8n(r, http) ==
    /\ r \in inflight
    /\ r.kind = "n8n"
    /\ inflight' = inflight \ {r}
    /\ audit' = IF http.kind = "error" THEN audit ELSE AuditLog(audit, pg_up)
    /\ last' = Response(r.rid, r.caller, "/n8n/trigger", "",
                        IF http.kind = "connect_error" THEN 503
                        ELSE IF http.kind = "error" THEN 500
                        ELSE IF http.code < 400 THEN 200 ELSE http.code,
                        OkReason, NoResult, NoText)
    /\ UNCHANGED <<ran, outboxVars, now, hour0, policy, rate_counts, pg_up, sessions, next_uuid, procs,
                   ncalls, accepted, gate, dispatched, handles>>

\* trigger_compaction: the priority is "high"; the subprocess is started
\* and not waited for
TriggerCompaction(c, script_exists) ==
    LET rid == ncalls + 1
        e == EnforcePolicy(policy, rate_counts, now, Hour(hour0, now), c, "high")
    IN  /\ ncalls < MaxCalls
        /\ ncalls' = rid
        /\ gate' = Gate(rid, c, "/compact", "", "high", now, e)
        /\ IF e.denied
           THEN Deny(rid, c, "/compact", e, FALSE)
           ELSE /\ rate_counts' = RecordCall(e.rc, c, now)
                /\ accepted' = [accepted EXCEPT ![c] = Append(@, now)]
                /\ procs' = IF script_exists THEN Started(rid) ELSE procs
                /\ last' = Response(rid, c, "/compact", "",
                                    IF script_exists THEN 200 ELSE 404,
                                    OkReason, NoResult, NoText)
                /\ UNCHANGED <<sessions, next_uuid, inflight, audit, dispatched, handles>>
        /\ UNCHANGED <<ran, outboxVars, now, hour0, policy, pg_up>>

\* A subprocess nobody waits for any more ends by itself
ProcExit(pid) ==
    /\ pid \in DOMAIN procs
    /\ procs[pid] = "running"
    /\ \A r \in inflight : r.rid # pid
    /\ procs' = [procs EXCEPT ![pid] = "exited"]
    /\ UNCHANGED <<ran, outboxVars, now, hour0, policy, rate_counts, pg_up, sessions, next_uuid, inflight,
                   audit, last, ncalls, accepted, gate, dispatched, handles>>

\* Postgres becomes unreachable, and reachable again
PgFail ==
    /\ pg_up
    /\ pg_up' = FALSE
    /\ UNCHANGED <<ran, outboxVars, now, hour0, policy, rate_counts, sessions, next_uuid, inflight, procs,
                   audit, last, ncalls, accepted, gate, dispatched, handles>>

PgRecover ==
    /\ ~pg_up
    /\ pg_up' = TRUE
    /\ UNCHANGED <<ran, outboxVars, now, hour0, policy, rate_counts, sessions, next_uuid, inflight, procs,
                   audit, last, ncalls, accepted, gate, dispatched, handles>>

-----------------------------------------------------------------------------
(* Event outbox: emit, purge, policy reload and the drain worker *)

EmitEvent_StoreIgnored(box, n, ps, up, pol, event_type) ==
    [outbox |-> [id \in DOMAIN box \cup {n} |->
                    IF id = n THEN NewEvent(event_type, WebhookUrl(pol, event_type))
                    ELSE box[id]],
     next_event |-> n + 1,
     posts |-> [id \in DOMAIN ps \cup {n} |-> IF id = n THEN NoPosts ELSE ps[id]]]

\* emit_event: nothing is written when get_pg() gives no connection
EmitEvent(box, n, ps, up, pol, event_type) ==
    IF up
    THEN [outbox |-> [id \in DOMAIN box \cup {n} |->
                         IF id = n THEN NewEvent(event_type, WebhookUrl(pol, event_type))
                         ELSE box[id]],
          next_event |-> n + 1,
          posts |-> [id \in DOMAIN ps \cup {n} |-> IF id = n THEN NoPosts ELSE ps[id]]]
    ELSE [outbox |-> box, next_event |-> n, posts |-> ps]

\* submit_event: POST /api/v1/events
SubmitEvent(source, event_type) ==
    LET rid == ncalls + 1
        e == EmitEvent(outbox, next_event, posts, pg_up, policy, event_type)
    IN  /\ ncalls < MaxCalls
        /\ next_event <= MaxEvents
        /\ ncalls' = rid
        /\ outbox' = e.outbox
        /\ next_event' = e.next_event
        /\ posts' = e.posts
        /\ last' = Response(rid, source, "/events", "", 200, OkReason, NoResult,
                            T("queued"))
        /\ UNCHANGED <<now, hour0, policy, rate_counts, pg_up, sessions, next_uuid,
                       inflight, procs, audit, accepted, gate, dispatched, handles, ran,
                       drain>>

\* The purge deleting every event that is no longer pending
PurgeDeliveredEvents_Terminal ==
    LET rid == ncalls + 1
        kept == {id \in DOMAIN outbox : outbox[id].status = "pending"}
    IN  /\ ncalls < MaxCalls
        /\ ncalls' = rid
        /\ outbox' = IF pg_up THEN [id \in kept |-> outbox[id]] ELSE outbox
        /\ last' = Response(rid, "", "/events/delivered", "",
                            IF pg_up THEN 200 ELSE 503, OkReason, NoResult, NoText)
        /\ UNCHANGED <<now, hour0, policy, rate_counts, pg_up, sessions, next_uuid,
                       inflight, procs, audit, accepted, gate, dispatched, handles, ran,
                       next_event, drain, posts>>

\* purge_delivered_events: DELETE /api/v1/events/delivered
PurgeDeliveredEvents ==
    LET rid == ncalls + 1
        kept == {id \in DOMAIN outbox : outbox[id].status # "delivered"}
    IN  /\ ncalls < MaxCalls
        /\ ncalls' = rid
        /\ outbox' = IF pg_up THEN [id \in kept |-> outbox[id]] ELSE outbox
        /\ last' = Response(rid, "", "/events/delivered", "",
                            IF pg_up THEN 200 ELSE 503, OkReason, NoResult, NoText)
        /\ UNCHANGED <<now, hour0, policy, rate_counts, pg_up, sessions, next_uuid,
                       inflight, procs, audit, accepted, gate, dispatched, handles, ran,
                       next_event, drain, posts>>

\* The policy file when it is not there, and when it is not JSON
MissingFile == [kind |-> "missing"]
UnparsableFile == [kind |-> "unparsable"]

\* load_policy keeping a fallback document when the file cannot be loaded
LoadPolicy_Fallback(file) ==
    IF file \in {MissingFile, UnparsableFile}
    THEN [policy |-> PolicyA, log |-> T("Failed to load policy")]
    ELSE [policy |-> file, log |-> T("Policy loaded")]

\* load_policy: _policy as the file gives it, {} when open or json.load
\* raises, and the line it logs
LoadPolicy(file) ==
    IF file \in {MissingFile, UnparsableFile}
    THEN [policy |-> EmptyPolicy, log |-> T("Failed to load policy")]
    ELSE [policy |-> file, log |-> T("Policy loaded")]

\* get_policy: GET /api/v1/policy reloads the policy file, whatever it holds
\* now; detail is the line load_policy logs
GetPolicy(file) ==
    LET rid == ncalls + 1
    IN  /\ ncalls < MaxCalls
        /\ ncalls' = rid
        /\ policy' = LoadPolicy(file).policy
        /\ last' = Response(rid, "", "/policy", "", 200, OkReason, NoResult,
                            LoadPolicy(file).log)
        /\ UNCHANGED <<now, hour0, rate_counts, pg_up, sessions, next_uuid, inflight,
                       procs, audit, accepted, gate, dispatched, handles, ran,
                       outboxVars>>

\* _drain_outbox, lines 356-373: a cycle starts when Postgres answers and
\* the SELECT returns rows
DrainSelect ==
    /\ drain.pc = "sleep"
    /\ pg_up
    /\ SelectPending(outbox) # <<>>
    /\ drain' = Posting(SelectPending(outbox), 1)
    /\ posts' = [id \in DOMAIN posts |-> [posts[id] EXCEPT !.in_cycle = FALSE]]
    /\ UNCHANGED <<now, hour0, policy, rate_counts, pg_up, sessions, next_uuid, inflight,
                   procs, audit, last, ncalls, accepted, gate, dispatched, handles, ran,
                   outbox, next_event>>

AfterPost_UnreachableUncounted(box, id, http, t) ==
    IF id \notin DOMAIN box THEN box
    ELSE IF http.kind = "status" /\ http.code < 400
    THEN [box EXCEPT ![id].status = "delivered", ![id].delivered_at = t]
    ELSE IF http.kind = "connect_error" THEN box
    ELSE [box EXCEPT ![id].attempts = @ + 1,
                     ![id].last_error = "HTTP " \o ToString(http.code)]

AfterPost_ServerErrorDelivered(box, id, http, t) ==
    IF id \notin DOMAIN box THEN box
    ELSE IF http.kind = "status" /\ http.code <= 500
    THEN [box EXCEPT ![id].status = "delivered", ![id].delivered_at = t]
    ELSE [box EXCEPT ![id].attempts = @ + 1,
                     ![id].last_error = "n8n unreachable"]

\* The UPDATE counting every POST, the answered ones too
AfterPost_EveryPostCounted(box, id, http, t) ==
    IF id \notin DOMAIN box THEN box
    ELSE IF http.kind = "status" /\ http.code < 400
    THEN [box EXCEPT ![id].status = "delivered", ![id].delivered_at = t,
                     ![id].attempts = @ + 1]
    ELSE [box EXCEPT ![id].attempts = @ + 1,
                     ![id].last_error =
                         IF http.kind = "status" THEN "HTTP " \o ToString(http.code)
                         ELSE IF http.kind = "connect_error" THEN "n8n unreachable"
                         ELSE "error"]

\* The UPDATE that follows the answer to the POST of a row (lines 385-420)
AfterPost(box, id, http, t) ==
    IF id \notin DOMAIN box THEN box
    ELSE IF http.kind = "status" /\ http.code < 400
    THEN [box EXCEPT ![id].status = "delivered", ![id].delivered_at = t]
    ELSE [box EXCEPT ![id].attempts = @ + 1,
                     ![id].last_error =
                         IF http.kind = "status" THEN "HTTP " \o ToString(http.code)
                         ELSE IF http.kind = "connect_error" THEN "n8n unreachable"
                         ELSE "error"]

Sweep_Nothing(box) == box

Sweep_AfterAnyFailure(box) ==
    [id \in DOMAIN box |->
        IF box[id].status = "pending" /\ box[id].attempts >= 1
        THEN [box[id] EXCEPT !.status = "failed"]
        ELSE box[id]]

\* Lines 422-428: pending events whose attempts reached the ceiling
Sweep(box) ==
    [id \in DOMAIN box |->
        IF box[id].status = "pending" /\ box[id].attempts >= MAX_ATTEMPTS
        THEN [box[id] EXCEPT !.status = "failed"]
        ELSE box[id]]

\* What is remembered of one more POST for event id: the URL it went to,
\* (resolved) the URL the policy in force at that moment gives for the
\* event's type, (ahead_of) the older events that were pending then, and
\* (answer) how the POST ended
Posted(ps, box, pol, id, url, http) ==
    [ps EXCEPT ![id] =
        [urls |-> @.urls \cup {url},
         ok_urls |-> IF http.kind = "status" /\ http.code < 400
                     THEN @.ok_urls \cup {url} ELSE @.ok_urls,
         resolved |-> IF id \in DOMAIN box
                      THEN @.resolved \cup {WebhookUrl(pol, box[id].event_type)}
                      ELSE @.resolved,
         ahead_of |-> @.ahead_of \cup
                        {a \in DOMAIN box : a < id /\ box[a].status = "pending"},
         after_delivered |-> @.after_delivered \/ id \notin DOMAIN box
                                \/ box[id].status = "delivered",
         in_cycle |-> TRUE,
         twice |-> @.twice \/ @.in_cycle,
         answer |-> http]]

\* The same step with the destination taken from the policy in force at
\* the POST instead of the selected row
DrainPost_ReResolved(http, fails) ==
    LET row == drain.rows[drain.i]
        broke == http.kind = "connect_error"
        sweeps == broke \/ drain.i = Len(drain.rows)
        updated == AfterPost(outbox, row.id, http, now)
    IN  /\ drain.pc = "post"
        /\ fails => (pg_up /\ sweeps)
        /\ posts' = Posted(posts, outbox, policy, row.id,
                          IF row.id \in DOMAIN outbox
                          THEN WebhookUrl(policy, outbox[row.id].event_type)
                          ELSE row.webhook_url, http)
        /\ outbox' = IF ~pg_up THEN outbox
                     ELSE IF sweeps /\ ~fails THEN Sweep(updated)
                     ELSE updated
        /\ drain' = IF ~pg_up THEN Sleeping(drain.rows, drain.i, FALSE, "aborted")
                    ELSE IF ~sweeps THEN Posting(drain.rows, drain.i + 1)
                    ELSE Sleeping(drain.rows, drain.i, broke,
                                  IF fails THEN "aborted" ELSE "swept")
        /\ pg_up' = IF fails THEN FALSE ELSE pg_up
        /\ UNCHANGED <<now, hour0, policy, rate_counts, sessions, next_uuid, inflight,
                       procs, audit, last, ncalls, accepted, gate, dispatched, handles,
                       ran, next_event>>

\* The same step with the cycle broken off after any failed POST
DrainPost_BreakOnFailure(http, fails) ==
    LET row == drain.rows[drain.i]
        broke == ~(http.kind = "status" /\ http.code < 400)
        sweeps == broke \/ drain.i = Len(drain.rows)
        updated == AfterPost(outbox, row.id, http, now)
    IN  /\ drain.pc = "post"
        /\ fails => (pg_up /\ sweeps)
        /\ posts' = Posted(posts, outbox, policy, row.id, row.webhook_url, http)
        /\ outbox' = IF ~pg_up THEN outbox
                     ELSE IF sweeps /\ ~fails THEN Sweep(updated)
                     ELSE updated
        /\ drain' = IF ~pg_up THEN Sleeping(drain.rows, drain.i, FALSE, "aborted")
                    ELSE IF ~sweeps THEN Posting(drain.rows, drain.i + 1)
                    ELSE Sleeping(drain.rows, drain.i, broke,
                                  IF fails THEN "aborted" ELSE "swept")
        /\ pg_up' = IF fails THEN FALSE ELSE pg_up
        /\ UNCHANGED <<now, hour0, policy, rate_counts, sessions, next_uuid, inflight,
                       procs, audit, last, ncalls, accepted, gate, dispatched, handles,
                       ran, next_event>>

\* _drain_outbox, lines 376-428: the POST of the next row and what follows
\* its answer without suspension: the UPDATE of the row and, after the last
\* row or the break on httpx.ConnectError, the sweep.  A statement on a
\* lost connection raises into the handler of line 430 and the cycle is
\* over.  fails: Postgres is lost between the UPDATE and the sweep.
DrainPost(http, fails) ==
    LET row == drain.rows[drain.i]
        broke == http.kind = "connect_error"
        sweeps == broke \/ drain.i = Len(drain.rows)
        updated == AfterPost(outbox, row.id, http, now)
    IN  /\ drain.pc = "post"
        /\ fails => (pg_up /\ sweeps)
        /\ posts' = Posted(posts, outbox, policy, row.id, row.webhook_url, http)
        /\ outbox' = IF ~pg_up THEN outbox
                     ELSE IF sweeps /\ ~fails THEN Sweep(updated)
                     ELSE updated
        /\ drain' = IF ~pg_up THEN Sleeping(drain.rows, drain.i, FALSE, "aborted")
                    ELSE IF ~sweeps THEN Posting(drain.rows, drain.i + 1)
                    ELSE Sleeping(drain.rows, drain.i, broke,
                                  IF fails THEN "aborted" ELSE "swept")
        /\ pg_up' = IF fails THEN FALSE ELSE pg_up
        /\ UNCHANGED <<now, hour0, policy, rate_counts, sessions, next_uuid, inflight,
                       procs, audit, last, ncalls, accepted, gate, dispatched, handles,
                       ran, next_event>>

\* The drain task ended by CancelledError; its local variables as they were
Cancelled(d) == [d EXCEPT !.pc = "cancelled"]

\* Cancellation taken as a failure of the POST in flight
Shutdown_CountsAttempt ==
    /\ drain.pc \in {"sleep", "post"}
    /\ drain' = Cancelled(drain)
    /\ outbox' = IF drain.pc = "post" /\ pg_up
                 THEN AfterPost(outbox, drain.rows[drain.i].id, OtherError, now)
                 ELSE outbox
    /\ UNCHANGED <<now, hour0, policy, rate_counts, pg_up, sessions, next_uuid, inflight,
                   procs, audit, last, ncalls, accepted, gate, dispatched, handles, ran,
                   next_event, posts>>

\* lifespan, lines 740-745: drain_task.cancel() and await drain_task.  The
\* task is suspended in asyncio.sleep (line 356) or in client.post (line
\* 383); CancelledError is raised there, no handler of _drain_outbox catches
\* it (it is not an Exception), and the task ends without another statement.
Shutdown ==
    /\ drain.pc \in {"sleep", "post"}
    /\ drain' = Cancelled(drain)
    /\ UNCHANGED <<now, hour0, policy, rate_counts, pg_up, sessions, next_uuid, inflight,
                   procs, audit, last, ncalls, accepted, gate, dispatched, handles, ran,
                   outbox, next_event, posts>>

-----------------------------------------------------------------------------
(* Outputs of the CLI *)

Hello == JObj(<<KV("result", JStr("hello"))>>, "{'result': 'hello'}")

\* "[plugin] loaded\n{\"result\":\"hello\"}\n"
OutBanner ==
    <<TextLine("[plugin] loaded", "other"), JsonLine("{\"result\":\"hello\"}", Hello)>>

\* two banner lines before the object
OutBanners ==
    <<TextLine("[plugin] loaded", "other"), TextLine("ready", "other"),
      JsonLine("{\"result\":\"hello\"}", Hello)>>

GateRuns == {Exit(0, NoText, OutBanner)}
GateHttp == {HttpStatus(200), ConnectError, OtherError}

-----------------------------------------------------------------------------
(* The bridge under requests of every kind, with Postgres reachable *)

AskClaudeReq == \E c \in DirectCallers, prio \in Priorities, p \in Purposes :
                    ClaudeAsk(c, prio, p)
AskAgentReq == \E c \in {"mallory"}, a \in Agents, p \in Purposes :
                    AgentAsk(c, a, "normal", p)
TriggerReq == \E c \in {"alice"} : N8nTrigger(c, "normal")
CallbackReq == \E w \in Workflows, t \in {"claude"} \cup Agents :
                    N8nWebhookReceiver(w, t, "normal")
CompactReq == \E c \in Console, x \in BOOLEAN : TriggerCompaction(c, x)
ClaudeDone == \E r \in inflight, run \in GateRuns : FinishClaude(r, run)
AgentDone == \E r \in inflight, run \in GateRuns : FinishAgent(r, run)
TriggerDone == \E r \in inflight, h \in GateHttp : FinishN8n(r, h)
ProcDone == \E pid \in DOMAIN procs : ProcExit(pid)

Next ==
    \/ Tick
    \/ AskClaudeReq
    \/ AskAgentReq
    \/ TriggerReq
    \/ CallbackReq
    \/ CompactReq
    \/ ClaudeDone
    \/ AgentDone
    \/ TriggerDone
    \/ ProcDone

Spec == Init /\ [][Next]_vars

-----------------------------------------------------------------------------
(* The bridge under requests of every kind, with dispatched calls that     *)
(* succeed, exit with an error, time out, or do not reach the engine       *)

ChargeRuns == GateRuns \cup {Exit(1, T("boom"), <<>>), Timeout}

ChargeClaudeDone == \E r \in inflight, run \in ChargeRuns : FinishClaude(r, run)
ChargeAgentDone == \E r \in inflight, run \in ChargeRuns : FinishAgent(r, run)

NextCharge ==
    \/ Tick
    \/ AskClaudeReq
    \/ AskAgentReq
    \/ TriggerReq
    \/ CallbackReq
    \/ CompactReq
    \/ ChargeClaudeDone
    \/ ChargeAgentDone
    \/ TriggerDone
    \/ ProcDone

SpecCharge == Init /\ [][NextCharge]_vars

-----------------------------------------------------------------------------
(* The CLI invocation protocol and the session tracker, under every kind   *)
(* of subprocess output and with Postgres failing and recovering           *)

Fragment(s) == JObj(<<KV("text", JStr(s))>>, "{'text': '" \o s \o "'}")
Wrapped(payloads) ==
    JObj(<<KV("result", JObj(<<KV("payloads", payloads)>>, "{'payloads': ...}"))>>,
         "{'result': {'payloads': ...}}")

\* no output at all
OutEmpty == <<>>
\* no JSON
OutPlain == <<TextLine("all done", "other")>>
\* plugin lines, then text
OutPlugins == <<TextLine("[plugins] ready", "[plugins]"), TextLine("hi there", "other")>>
\* truncated JSON
OutTruncated ==
    <<[raw |-> "{\"result\":\"hel", lead |-> "{", doc |-> NoDoc, pad |-> 0]>>
\* JSON followed by text
OutTrailing ==
    <<JsonLine("{\"result\":\"hello\"}", Hello), TextLine("Done.", "other")>>
\* more text than any cut keeps
OutLong == <<LongLine("x", 2500)>>
\* JSON that is not an object
OutArray == <<JsonLine("[1, 2]", JArr(<<JNum("1"), JNum("2")>>, "[1, 2]"))>>
OutNumber == <<JsonLine("42", JNum("42"))>>
\* an object without the expected fields
OutNoFields ==
    <<JsonLine("{\"status\":\"ok\"}", JObj(<<KV("status", JStr("ok"))>>, "{'status': 'ok'}"))>>
\* an object whose response field is null
OutNullResponse ==
    <<JsonLine("{\"response\":null}", JObj(<<KV("response", JNull)>>, "{'response': None}"))>>
\* the response field of the agent CLI
OutResponse ==
    <<JsonLine("{\"response\":\"hi\"}", JObj(<<KV("response", JStr("hi"))>>, "{'response': 'hi'}"))>>
\* typed payload fragments
OutPayloads ==
    <<JsonLine("{\"result\":{\"payloads\":[{\"text\":\"a\"},{\"type\":\"meta\"},{\"text\":\"b\"}]}}",
               Wrapped(JArr(<<Fragment("a"),
                              JObj(<<KV("type", JStr("meta"))>>, "{'type': 'meta'}"),
                              Fragment("b")>>, "[...]")))>>
\* payload fragments of unexpected shape: a fragment that is no object, a
\* payload list that is null, a text that is a number
OutBadFragment ==
    <<JsonLine("{\"result\":{\"payloads\":[\"a\"]}}", Wrapped(JArr(<<JStr("a")>>, "['a']")))>>
OutNullPayloads ==
    <<JsonLine("{\"result\":{\"payloads\":null}}", Wrapped(JNull))>>
OutNumberText ==
    <<JsonLine("{\"result\":{\"payloads\":[{\"text\":5}]}}",
               Wrapped(JArr(<<JObj(<<KV("text", JNum("5"))>>, "{'text': 5}")>>, "[...]")))>>

Outputs ==
    {OutEmpty, OutPlain, OutPlugins, OutTruncated, OutTrailing, OutLong, OutBanner,
     OutBanners,
     OutArray, OutNumber, OutNoFields, OutNullResponse, OutResponse, OutPayloads,
     OutBadFragment, OutNullPayloads, OutNumberText}

Runs ==
    {Timeout, Exit(1, T("boom"), <<>>), Exit(1, Filler("boom", 600), OutPlain)}
        \cup {Exit(0, NoText, out) : out \in Outputs}

InitInvoke == InitWith({EmptyPolicy}, {12})

InvokeClaudeReq == \E p \in Purposes : ClaudeAsk("mallory", "normal", p)
InvokeAgentReq == \E a \in Agents, p \in Purposes : AgentAsk("mallory", a, "normal", p)
InvokeClaudeDone == \E r \in inflight, run \in Runs : FinishClaude(r, run)
InvokeAgentDone == \E r \in inflight, run \in Runs : FinishAgent(r, run)

NextInvoke ==
    \/ InvokeClaudeReq
    \/ InvokeAgentReq
    \/ InvokeClaudeDone
    \/ InvokeAgentDone
    \/ ProcDone

SpecInvoke == InitInvoke /\ [][NextInvoke]_vars

-----------------------------------------------------------------------------
(* The session tracker with Postgres failing and recovering *)

StoreRuns == {Timeout, Exit(0, NoText, OutBanner)}

StoreClaudeReq == \E p \in Purposes : ClaudeAsk("mallory", "normal", p)
StoreAgentReq == \E a \in Agents, p \in Purposes :
                     AgentAsk("mallory", a, "normal", p)
StoreClaudeDone == \E r \in inflight, run \in StoreRuns : FinishClaude(r, run)
StoreAgentDone == \E r \in inflight, run \in StoreRuns : FinishAgent(r, run)

NextStore ==
    \/ StoreClaudeReq
    \/ StoreAgentReq
    \/ StoreClaudeDone
    \/ StoreAgentDone
    \/ PgFail
    \/ PgRecover

SpecStore == InitInvoke /\ [][NextStore]_vars

-----------------------------------------------------------------------------
(* The session tracker while the clock advances, with Postgres failing and *)
(* recovering                                                              *)

NextSession ==
    \/ Tick
    \/ StoreClaudeReq
    \/ StoreAgentReq
    \/ StoreClaudeDone
    \/ StoreAgentDone
    \/ PgFail
    \/ PgRecover

SpecSession == InitInvoke /\ [][NextSession]_vars

-----------------------------------------------------------------------------
(* The session tracker with Postgres failing and recovering at any moment, *)
(* between two statements of a handler too                                 *)

FlapClaudeReq == \E p \in Purposes, read_up, write_up \in BOOLEAN :
                     ClaudeAskStore("mallory", "normal", p, read_up, write_up)

NextFlap ==
    \/ FlapClaudeReq
    \/ StoreAgentReq
    \/ StoreClaudeDone
    \/ StoreAgentDone
    \/ PgFail
    \/ PgRecover

SpecFlap == InitInvoke /\ [][NextFlap]_vars

-----------------------------------------------------------------------------
(* The event outbox: events submitted, purged and drained, the policy      *)
(* reloaded, Postgres failing and recovering                               *)

\* Two states of the policy file: task.created mapped, and mapped elsewhere
\* with a default for the other event types
PolicyB ==
    [PolicyA EXCEPT !.keys = @ \cup {"event_webhooks"},
                    !.event_webhooks = [x \in {"task.created"} |-> "/webhook/tasks"]]
PolicyC ==
    [PolicyA EXCEPT !.keys = @ \cup {"event_webhooks"},
                    !.event_webhooks = [x \in {"task.created", "_default"} |->
                                           IF x = "_default" THEN "/webhook/all"
                                           ELSE "/webhook/tasks-v2"]]
PolicyFiles == {PolicyB, PolicyC}

DrainHttp == {HttpStatus(200), HttpStatus(500), ConnectError}

InitOutbox == InitWith({PolicyB}, {12})

SubmitReq == SubmitEvent("alice", "task.created")
DrainStep == \E h \in DrainHttp, fails \in BOOLEAN : DrainPost(h, fails)

NextOutbox ==
    \/ SubmitReq
    \/ PurgeDeliveredEvents
    \/ DrainSelect
    \/ DrainStep
    \/ PgFail
    \/ PgRecover

SpecOutbox == InitOutbox /\ [][NextOutbox]_vars

-----------------------------------------------------------------------------
(* The event outbox up to the shutdown of the bridge: the drain task is    *)
(* cancelled at any of its suspension points, and no request is served     *)
(* afterwards                                                              *)

Serving == drain.pc # "cancelled"

ServedSubmit == Serving /\ SubmitReq
ServedPurge == Serving /\ PurgeDeliveredEvents

NextShutdown ==
    \/ ServedSubmit
    \/ ServedPurge
    \/ DrainSelect
    \/ DrainStep
    \/ PgFail
    \/ PgRecover
    \/ Shutdown

SpecShutdown == InitOutbox /\ [][NextShutdown]_vars

-----------------------------------------------------------------------------
(* The drain worker with every way a POST can end: answered with a status  *)
(* code on either side of 400, the destination unreachable, and any other  *)
(* exception of the client (a timeout), Postgres failing and recovering    *)

RejectHttp == {HttpStatus(200), HttpStatus(399), HttpStatus(400), HttpStatus(500),
               ConnectError, OtherError}

RejectStep == \E h \in RejectHttp, fails \in BOOLEAN : DrainPost(h, fails)

NextReject ==
    \/ SubmitReq
    \/ DrainSelect
    \/ RejectStep
    \/ PgFail
    \/ PgRecover

SpecReject == InitOutbox /\ [][NextReject]_vars

-----------------------------------------------------------------------------
(* Delivery with the store available: the drain task is scheduled again    *)
(* and again (asyncio.sleep returns), and every POST it awaits is answered *)
(* or fails                                                                *)

DeliveryStep == \E h \in DrainHttp : DrainPost(h, FALSE)

NextDelivery ==
    \/ SubmitReq
    \/ PurgeDeliveredEvents
    \/ DrainSelect
    \/ DeliveryStep

SpecDelivery ==
    /\ InitOutbox
    /\ [][NextDelivery]_vars
    /\ WF_vars(DrainSelect)
    /\ WF_vars(DeliveryStep)

-----------------------------------------------------------------------------
(* Emit: events of every type submitted while the policy file changes and  *)
(* is reloaded, and Postgres fails and recovers                            *)

EmitReq == \E t \in EventTypes : SubmitEvent("alice", t)
ReloadReq == \E f \in PolicyFiles : GetPolicy(f)
EmitDrainStep == \E h \in {HttpStatus(200), HttpStatus(500)} : DrainPost(h, FALSE)

NextEmit ==
    \/ EmitReq
    \/ ReloadReq
    \/ DrainSelect
    \/ EmitDrainStep
    \/ PgFail
    \/ PgRecover

SpecEmit == InitOutbox /\ [][NextEmit]_vars

-----------------------------------------------------------------------------
(* The policy gate alone, started with calls already recorded: requests of *)
(* every priority from a configured, an unconfigured and the console       *)
(* caller, under two policy documents, around the ends of the quiet window *)

\* A policy document without global_limits (the ceiling is 60), with quiet
\* hours 09:00-17:00 inside one day, and alice flagged quiet_hours_exempt
PolicyD ==
    [keys |-> {"per_agent", "quiet_hours"},
     global_cph |-> 0,
     per_agent |->
        [c \in {"alice"} |->
            [keys |-> {"calls_per_hour", "priority_levels", "quiet_hours_exempt"},
             calls_per_hour |-> 1,
             max_cost_cents |-> 0,
             allowed_targets |-> {},
             priority_levels |-> {"normal", "critical"},
             quiet_hours_exempt |-> TRUE]],
     quiet_start |-> <<9, 0>>,
     quiet_end |-> <<17, 0>>,
     event_webhooks |-> [x \in {} |-> ""]]

GatePolicies == {PolicyA, PolicyD}
GateHours == {7, 8, 16, 22}

\* _rate_counts[caller] after earlier calls: a calls recorded an hour
\* before the start and b calls recorded within the hour before it
\* (under the policy document loaded at that time)
Recorded(a, b) == [i \in 1..(a + b) |-> IF i <= a THEN 0 - HourTicks ELSE 0 - 1]

GateCounters ==
    {[c \in Callers |->
         CASE c = "mallory" -> Recorded(m[1], m[2])
           [] c = "alice" -> Recorded(x[1], x[2])
           [] OTHER -> <<>>] :
       m \in (0..1) \X ({0} \cup ((MaxHistory - 2)..MaxHistory)),
       x \in {<<0, 0>>, <<1, 0>>, <<0, 1>>}}

InitGate ==
    /\ now = 0
    /\ hour0 \in GateHours
    /\ policy \in GatePolicies
    /\ rate_counts \in GateCounters
    /\ accepted = rate_counts
    /\ pg_up = TRUE
    /\ sessions = [x \in {} |-> 0]
    /\ next_uuid = 1
    /\ inflight = {}
    /\ procs = [x \in {} |-> ""]
    /\ audit = [pg |-> 0, jsonl |-> 0]
    /\ last = Response(0, "", "", "", 0, OkReason, NoResult, NoText)
    /\ ncalls = 0
    /\ gate = Gate(0, "", "", "", "", 0, [denied |-> FALSE, reason |-> OkReason])
    /\ dispatched = {}
    /\ handles = {}
    /\ ran = NoRun
    /\ outbox = [x \in {} |-> 0]
    /\ next_event = 1
    /\ drain = Sleeping(<<>>, 0, FALSE, "none")
    /\ posts = [x \in {} |-> 0]

\* The requests, sent one after the other
GateRequests ==
    ({"mallory"} \X AllPriorities) \cup ({"alice"} \X {"normal", "high"})
        \cup ({"dashboard"} \X {"normal"})
GateReq == \E q \in GateRequests : inflight = {} /\ N8nTrigger(q[1], q[2])
GateDone == \E r \in inflight : FinishN8n(r, HttpStatus(200))

NextGate ==
    \/ Tick
    \/ GateReq
    \/ GateDone

SpecGate == InitGate /\ [][NextGate]_vars

-----------------------------------------------------------------------------
(* Callbacks of the workflow engine: two workflows, one of them configured *)
(* in the policy document, calling back to the assistant and to agents.    *)
(* source_workflow and target are strings of the request, taken as they    *)
(* are; the names are chosen with and without the separator of the session *)
(* key in them.                                                            *)

CallbackWorkflows == {"a", "a-n8n-callback-a"}
CallbackTargets == {"claude", "bob", "n8n-callback-a-bob-n8n-callback-a"}
CallbackCallers == {"n8n:" \o w : w \in CallbackWorkflows}

\* Workflow a may call once an hour at priority normal; the other workflow
\* is not configured
PolicyE ==
    [keys |-> {"per_agent"},
     global_cph |-> 0,
     per_agent |->
        [c \in {"n8n:a"} |->
            [keys |-> {"calls_per_hour", "priority_levels"},
             calls_per_hour |-> 1,
             max_cost_cents |-> 0,
             allowed_targets |-> {},
             priority_levels |-> {"normal"},
             quiet_hours_exempt |-> FALSE]],
     quiet_start |-> <<0, 0>>,
     quiet_end |-> <<0, 0>>,
     event_webhooks |-> [x \in {} |-> ""]]

InitCallback ==
    /\ now = 0
    /\ hour0 = 12
    /\ policy = PolicyE
    /\ rate_counts = [c \in CallbackCallers |-> <<>>]
    /\ accepted = rate_counts
    /\ pg_up = TRUE
    /\ sessions = [x \in {} |-> 0]
    /\ next_uuid = 1
    /\ inflight = {}
    /\ procs = [x \in {} |-> ""]
    /\ audit = [pg |-> 0, jsonl |-> 0]
    /\ last = Response(0, "", "", "", 0, OkReason, NoResult, NoText)
    /\ ncalls = 0
    /\ gate = Gate(0, "", "", "", "", 0, [denied |-> FALSE, reason |-> OkReason])
    /\ dispatched = {}
    /\ handles = {}
    /\ ran = NoRun
    /\ outbox = [x \in {} |-> 0]
    /\ next_event = 1
    /\ drain = Sleeping(<<>>, 0, FALSE, "none")
    /\ posts = [x \in {} |-> 0]

WorkflowCallback == \E w \in CallbackWorkflows, t \in CallbackTargets,
                       prio \in {"normal", "high"} : N8nWebhookReceiver(w, t, prio)

NextCallback ==
    \/ Tick
    \/ WorkflowCallback
    \/ ClaudeDone
    \/ AgentDone

SpecCallback == InitCallback /\ [][NextCallback]_vars

-----------------------------------------------------------------------------
(* The policy gate while the policy file is replaced, removed or damaged   *)
(* and reloaded, started with calls already recorded                       *)

ReloadFiles == {PolicyD, MissingFile, UnparsableFile}

InitReload ==
    /\ now = 0
    /\ hour0 \in GateHours
    /\ policy = PolicyA
    /\ rate_counts \in GateCounters
    /\ accepted = rate_counts
    /\ pg_up = TRUE
    /\ sessions = [x \in {} |-> 0]
    /\ next_uuid = 1
    /\ inflight = {}
    /\ procs = [x \in {} |-> ""]
    /\ audit = [pg |-> 0, jsonl |-> 0]
    /\ last = Response(0, "", "", "", 0, OkReason, NoResult, NoText)
    /\ ncalls = 0
    /\ gate = Gate(0, "", "", "", "", 0, [denied |-> FALSE, reason |-> OkReason])
    /\ dispatched = {}
    /\ handles = {}
    /\ ran = NoRun
    /\ outbox = [x \in {} |-> 0]
    /\ next_event = 1
    /\ drain = Sleeping(<<>>, 0, FALSE, "none")
    /\ posts = [x \in {} |-> 0]

ReloadFileReq == \E f \in ReloadFiles : inflight = {} /\ GetPolicy(f)

NextReload ==
    \/ Tick
    \/ ReloadFileReq
    \/ GateReq
    \/ GateDone

SpecReload == InitReload /\ [][NextReload]_vars

-----------------------------------------------------------------------------
(* The session key: callers, agents and purposes named with and without    *)
(* the separator of the key, asking the assistant and agents               *)

KeyCallers == {"a", "a-b", "a-claude-x"}
KeyAgents == {"c", "b-c"}
KeyPurposes == {"y", "x-claude-y"}

InitKeys ==
    /\ now = 0
    /\ hour0 = 12
    /\ policy = EmptyPolicy
    /\ rate_counts = [c \in KeyCallers |-> <<>>]
    /\ accepted = rate_counts
    /\ pg_up = TRUE
    /\ sessions = [x \in {} |-> 0]
    /\ next_uuid = 1
    /\ inflight = {}
    /\ procs = [x \in {} |-> ""]
    /\ audit = [pg |-> 0, jsonl |-> 0]
    /\ last = Response(0, "", "", "", 0, OkReason, NoResult, NoText)
    /\ ncalls = 0
    /\ gate = Gate(0, "", "", "", "", 0, [denied |-> FALSE, reason |-> OkReason])
    /\ dispatched = {}
    /\ handles = {}
    /\ ran = NoRun
    /\ outbox = [x \in {} |-> 0]
    /\ next_event = 1
    /\ drain = Sleeping(<<>>, 0, FALSE, "none")
    /\ posts = [x \in {} |-> 0]

KeyClaudeReq == \E c \in KeyCallers, p \in KeyPurposes : ClaudeAsk(c, "normal", p)
KeyAgentReq == \E c \in KeyCallers, a \in KeyAgents, p \in KeyPurposes :
                   AgentAsk(c, a, "normal", p)

NextKeys ==
    \/ KeyClaudeReq
    \/ KeyAgentReq
    \/ ClaudeDone
    \/ AgentDone

SpecKeys == InitKeys /\ [][NextKeys]_vars

-----------------------------------------------------------------------------
(* The assistant endpoint with cost caps: requests with and without        *)
(* max_cost_usd from a caller whose limits name a cap and from one on the  *)
(* defaults, and runs of the CLI that report a cost above every cap, no    *)
(* cost, or time out                                                       *)

\* alice is configured with a cap of 5 cents a call
PolicyF ==
    [keys |-> {"per_agent"},
     global_cph |-> 0,
     per_agent |->
        [c \in {"alice"} |->
            [keys |-> {"calls_per_hour", "max_cost_per_call_usd", "priority_levels"},
             calls_per_hour |-> 2,
             max_cost_cents |-> 5,
             allowed_targets |-> {},
             priority_levels |-> {"normal"},
             quiet_hours_exempt |-> FALSE]],
     quiet_start |-> <<0, 0>>,
     quiet_end |-> <<0, 0>>,
     event_webhooks |-> [x \in {} |-> ""]]

\* The policy document with the cap of caller c set to k cents
WithCap(pol, c, k) ==
    [pol EXCEPT !.per_agent =
        [d \in DOMAIN pol.per_agent \cup {c} |->
            [GetAgentLimits(pol, d) EXCEPT !.max_cost_cents = k,
                                           !.keys = IF d = c
                                                    THEN @ \cup {"max_cost_per_call_usd"}
                                                    ELSE @]]]

\* max_cost_usd of the request in cents (0: not given)
CostCaps == {0, 1, 100}

\* "{\"result\":\"hello\",\"cost_usd\":0.25}"
OutCost ==
    <<JsonLine("{\"result\":\"hello\",\"cost_usd\":0.25}",
               JObj(<<KV("result", JStr("hello")), KV("cost_usd", JNum("0.25"))>>,
                    "{'result': 'hello', 'cost_usd': 0.25}"))>>

CostRuns == {Exit(0, NoText, OutCost), Exit(0, NoText, OutBanner), Timeout}

InitCost == InitWith({PolicyF}, {12})

CostClaudeReq == \E c \in DirectCallers, k \in CostCaps :
                     ClaudeAskCapped(c, "normal", "general", k)
CostClaudeDone == \E r \in inflight, run \in CostRuns : FinishClaude(r, run)

NextCost ==
    \/ Tick
    \/ CostClaudeReq
    \/ CostClaudeDone

SpecCost == InitCost /\ [][NextCost]_vars

-----------------------------------------------------------------------------
(* The rate ceilings *)

\* The number of timestamps of ts in the hour that ends at t
InWindow(ts, t) == Cardinality({i \in 1..Len(ts) : ts[i] > t - HourTicks})

RECURSIVE SumInWindow(_, _, _)
SumInWindow(acc, S, t) ==
    IF S = {} THEN 0
    ELSE LET c == CHOOSE x \in S : TRUE
         IN InWindow(acc[c], t) + SumInWindow(acc, S \ {c}, t)

\* C1: at every instant, the calls of a caller that were accepted (recorded
\* by record_call) within the trailing hour number at most the caller's
\* calls_per_hour.
C1_PerCallerCeiling ==
    \A c \in Callers :
        InWindow(accepted[c], now) <= CallsPerHour(GetAgentLimits(policy, c))

\* A caller sits at its ceiling and its next call is denied for it
C1_Witness ==
    /\ gate.denied
    /\ gate.reason.kind = "agent_rate"
    /\ gate.t = now
    /\ InWindow(accepted[gate.caller], now)
         = CallsPerHour(GetAgentLimits(policy, gate.caller))

\* C2: at every instant, the calls of all callers accepted within the
\* trailing hour number at most global_limits.calls_per_hour.
C2_GlobalCeiling ==
    SumInWindow(accepted, Callers, now) <= GlobalLimit(policy)

\* The callers together sit at the global ceiling and the next call is
\* denied for it
C2_Witness ==
    /\ gate.denied
    /\ gate.reason.kind = "global_rate"
    /\ gate.t = now
    /\ SumInWindow(accepted, Callers, now) = GlobalLimit(policy)
    /\ \E c, d \in Callers : c # d /\ accepted[c] # <<>> /\ accepted[d] # <<>>

\* The calls accepted within the hour before the latest request: of caller
\* c, and of all callers
PriorAccepted(c) ==
    InWindow(accepted[c], gate.t)
        - (IF ~gate.denied /\ c = gate.caller THEN 1 ELSE 0)
PriorAcceptedAll ==
    SumInWindow(accepted, Callers, gate.t) - (IF gate.denied THEN 0 ELSE 1)

\* C3: a call that is otherwise permitted (outside quiet hours, priority
\* allowed, global ceiling not reached) is allowed while fewer than N calls
\* of its caller were accepted within the hour, and the call after the N-th
\* is denied with the reason naming the caller's rate limit.
C3_NoUnderAdmission ==
    LET lim == GetAgentLimits(policy, gate.caller)
        N == CallsPerHour(lim)
    IN  (/\ gate.rid > 0
         /\ ~IsQuietHours(policy, Hour(hour0, gate.t))
         /\ gate.priority \in PriorityLevels(lim)
         /\ PriorAcceptedAll < GlobalLimit(policy))
        => /\ PriorAccepted(gate.caller) < N => ~gate.denied
           /\ PriorAccepted(gate.caller) = N
                => /\ gate.denied
                   /\ gate.reason = Reason("agent_rate", gate.caller, N, "")

-----------------------------------------------------------------------------
(* Quiet hours and priority *)

NonExempt(c) == ~QuietExempt(GetAgentLimits(policy, c)) /\ c # "dashboard"

\* A call with priority normal was just placed at 02:00 by a caller that is
\* not exempt, with quiet hours 23:00-08:00
NormalCallAtTwo ==
    /\ gate.rid > 0
    /\ gate.t = now
    /\ QuietStart(policy) = 23
    /\ QuietEnd(policy) = 8
    /\ Hour(hour0, now) = 2
    /\ gate.priority = "normal"
    /\ NonExempt(gate.caller)

\* enforce_policy for the same caller in the same state, with priority critical
SameCallCritical ==
    EnforcePolicy(policy, rate_counts, now, Hour(hour0, now), gate.caller, "critical")

\* C4 as stated: the normal call placed at 02:00 is denied and the same call
\* with priority critical is allowed.
C4_CriticalAllowed ==
    NormalCallAtTwo => gate.denied /\ ~SameCallCritical.denied

\* C4, amended: the normal call placed at 02:00 is denied for quiet hours;
\* the same call with priority critical is never denied for quiet hours, is
\* allowed when critical is among the caller's priority levels and the rate
\* limiter holds fewer timestamps than either ceiling, and is denied when
\* critical is not among the caller's priority levels.  No request with
\* priority critical is denied for quiet hours.
C4_CriticalBypassesQuietHours ==
    /\ NormalCallAtTwo =>
         LET lim == GetAgentLimits(policy, gate.caller)
             room == /\ SumLen(rate_counts, Callers) < GlobalLimit(policy)
                     /\ Len(rate_counts[gate.caller]) < CallsPerHour(lim)
         IN  /\ gate.denied
             /\ gate.reason.kind = "quiet_hours"
             /\ SameCallCritical.reason.kind # "quiet_hours"
             /\ ("critical" \in PriorityLevels(lim) /\ room) => ~SameCallCritical.denied
             /\ "critical" \notin PriorityLevels(lim) => SameCallCritical.denied
    /\ gate.priority = "critical" => gate.reason.kind # "quiet_hours"

\* A normal call was denied at 02:00 and the same call with priority
\* critical would be let through
C4_Witness ==
    /\ NormalCallAtTwo
    /\ gate.denied
    /\ ~SameCallCritical.denied

-----------------------------------------------------------------------------
(* Who may call whom *)

\* C5: a call is dispatched to a target only if the target is in the
\* caller's allowed-targets set.
C5_OnlyAllowedTargets ==
    \A d \in dispatched : d[2] \in AllowedTargets(GetAgentLimits(policy, d[1]))

-----------------------------------------------------------------------------
(* Session continuity *)

\* C6: every invocation for a session is given the same conversation
\* handle; no (caller, target, purpose) triple ever has two handles.
C6_OneHandlePerSession ==
    \A p, q \in handles : p[1] = q[1] => p[2] = q[2]

\* C7: an invocation of the assistant CLI that timed out is answered with
\* 502, and every later call for the same session is invoked with the
\* handle of the invocation that timed out.
C7_TimeoutKeepsHandle ==
    (last.branch = "timeout" /\ last.endpoint = "/claude/ask") =>
        /\ last.status = 502
        /\ \A r \in inflight :
               (r.session_id = last.session /\ r.rid > last.rid)
                   => r.claude_sid = last.handle

-----------------------------------------------------------------------------
(* Invocation outcomes *)

\* C8: when an invocation ends with the timeout outcome, its subprocess
\* has been terminated.
C8_TimedOutIsKilled ==
    last.branch = "timeout" => procs[last.rid] # "running"

\* C9: every finished invocation ended as TimedOut, ProcessFailed (with at
\* most 500 characters of stderr) or ParsedText; the first two are answered
\* with 502, the third with 200.
C9_ThreeOutcomes ==
    last.rid > 0 =>
        /\ last.branch \in {"timeout", "process_failed", "parsed"}
        /\ last.branch \in {"timeout", "process_failed"} => last.status = 502
        /\ last.branch = "process_failed" => TLen(last.detail) <= 500
        /\ last.branch = "parsed" => last.status = 200

\* C10: an invocation whose subprocess exited with code 0 yields a text
\* response, whatever the output, and never an error.
C10_ParsingNeverFails ==
    (last.rid > 0 /\ last.branch \notin {"timeout", "process_failed"}) =>
        /\ last.branch = "parsed"
        /\ last.response.kind = "text"
        /\ last.status = 200

\* C11: when the output is banner lines followed by a line holding the
\* object {"result": "hello"}, the invocation, of the assistant and of a
\* named agent alike, returns exactly the text hello.
C11_BannerStripped ==
    (last.rid > 0 /\ ran.kind = "exit" /\ ran.rc = 0
        /\ ran.stdout \in {OutBanner, OutBanners})
    => /\ last.branch = "parsed"
       /\ last.response = TextResp(T("hello"))
       /\ last.status = 200

-----------------------------------------------------------------------------
(* Event outbox *)

\* C12: the status of an event only ever changes from pending to delivered
\* or from pending to failed, and to failed only with an attempt count that
\* has reached the ceiling.
C12_MonotoneStatus ==
    [][\A id \in DOMAIN outbox \cap DOMAIN outbox' :
          outbox[id].status # outbox'[id].status
              => /\ outbox[id].status = "pending"
                 /\ outbox'[id].status \in {"delivered", "failed"}
                 /\ outbox'[id].status = "failed"
                        => outbox'[id].attempts = MAX_ATTEMPTS]_vars

\* One event was delivered and another failed at the ceiling, both drained
\* again and again before
C12_Witness ==
    \E a, b \in DOMAIN outbox :
        /\ outbox[a].status = "delivered" /\ outbox[a].attempts > 0
        /\ outbox[b].status = "failed" /\ outbox[b].attempts = MAX_ATTEMPTS

\* C13: no POST is issued for an event whose status is delivered, and
\* within one cycle no event is POSTed twice.
C13_NoRedelivery ==
    \A id \in DOMAIN posts : ~posts[id].after_delivered /\ ~posts[id].twice

\* An event was delivered in an earlier cycle, and the latest cycle posted
\* another event and not this one
C13_Witness ==
    \E a, b \in DOMAIN outbox :
        /\ outbox[a].status = "delivered"
        /\ posts[a].ok_urls # {}
        /\ ~posts[a].in_cycle
        /\ posts[b].in_cycle

\* C14: when a cycle is over, an event whose attempt count has reached the
\* ceiling is failed, not pending, and a pending event with one attempt
\* less than the ceiling is among those the next cycle selects.
C14_FailedAtCeiling ==
    drain.pc = "sleep" =>
        \A id \in DOMAIN outbox :
            /\ outbox[id].attempts = MAX_ATTEMPTS => outbox[id].status = "failed"
            /\ (outbox[id].status = "pending" /\ outbox[id].attempts = MAX_ATTEMPTS - 1)
                   => \E i \in 1..Len(SelectPending(outbox)) :
                          SelectPending(outbox)[i].id = id

\* The latest cycle selected two events or more, found the destination
\* unreachable at the first POST, and ran to its end
CircuitBroken ==
    /\ drain.pc = "sleep"
    /\ drain.done = "swept"
    /\ drain.broke
    /\ drain.i = 1
    /\ Len(drain.rows) >= 2

\* Of the events of the batch only the oldest was POSTed, and only its
\* attempt count changed, by one
OnlyOldestAttempted ==
    /\ posts[drain.rows[1].id].in_cycle
    /\ outbox[drain.rows[1].id].attempts = drain.rows[1].attempts + 1
    /\ \A i \in 2..Len(drain.rows) :
           /\ ~posts[drain.rows[i].id].in_cycle
           /\ outbox[drain.rows[i].id].attempts = drain.rows[i].attempts
           /\ outbox[drain.rows[i].id].status = "pending"

\* C15 as stated: after the circuit-break only the oldest event was
\* attempted and all events of the batch are pending.
C15_AllStayPending ==
    CircuitBroken =>
        /\ OnlyOldestAttempted
        /\ outbox[drain.rows[1].id].status = "pending"

\* C15, amended: after the circuit-break only the oldest event was
\* attempted, the other events are pending and unchanged, and the oldest
\* is pending unless this attempt was its fifth, and failed if it was.
C15_CircuitBreak ==
    CircuitBroken =>
        /\ OnlyOldestAttempted
        /\ outbox[drain.rows[1].id].status =
               IF drain.rows[1].attempts + 1 < MAX_ATTEMPTS THEN "pending" ELSE "failed"

\* Fresh events and an unreachable destination: attempts 1, 0, ..., all
\* pending
C15_Witness ==
    /\ CircuitBroken
    /\ drain.rows[1].attempts = 0
    /\ \A i \in 1..Len(drain.rows) :
           /\ outbox[drain.rows[i].id].status = "pending"
           /\ outbox[drain.rows[i].id].attempts = IF i = 1 THEN 1 ELSE 0

\* C16: an event is delivered only if a POST to its stored destination URL
\* was answered with a status code below 400.
C16_DeliveredOnlyAfterSuccess ==
    \A id \in DOMAIN outbox :
        outbox[id].status = "delivered"
            => outbox[id].webhook_url \in posts[id].ok_urls

\* An event was delivered after attempts that failed
C16_Witness ==
    \E id \in DOMAIN outbox :
        /\ outbox[id].status = "delivered"
        /\ outbox[id].attempts >= 2
        /\ outbox[id].webhook_url \in posts[id].ok_urls

\* C17: with the store available and the drain worker scheduled again and
\* again, every event that emit wrote is eventually delivered or failed
\* (or delivered and purged), whatever the destination answers.
C17_EveryEventTerminates ==
    \A id \in 1..MaxEvents :
        (id \in DOMAIN outbox)
            ~> (id \notin DOMAIN outbox
                  \/ outbox[id].status \in {"delivered", "failed"})

\* An event reached the ceiling through every kind of failure and is failed,
\* with the store available at the end of every cycle
C17_Witness ==
    \E id \in DOMAIN outbox :
        /\ outbox[id].status = "failed"
        /\ outbox[id].attempts = MAX_ATTEMPTS
        /\ pg_up
        /\ drain.done = "swept"
        /\ \E other \in DOMAIN outbox : outbox[other].status = "delivered"

\* C18: POST /events is never evaluated by the policy gate and always
\* answers queued; emit issues no POST, writes one pending event when the
\* store is available, and writes nothing when it is not.
C18_EmitNeverFails ==
    [][(last'.rid # last.rid /\ last'.endpoint = "/events") =>
          /\ last'.status = 200
          /\ last'.detail = T("queued")
          /\ gate' = gate
          /\ rate_counts' = rate_counts
          /\ \A id \in DOMAIN posts : posts'[id] = posts[id]
          /\ ~pg_up => outbox' = outbox
          /\ pg_up => /\ DOMAIN outbox' = DOMAIN outbox \cup {next_event}
                      /\ outbox'[next_event].status = "pending"
                      /\ outbox'[next_event].attempts = 0
                      /\ \A id \in DOMAIN outbox : outbox'[id] = outbox[id]]_vars

\* An event was submitted while the store was down: queued is answered
\* and no event exists
C18_Witness ==
    /\ last.endpoint = "/events"
    /\ last.status = 200
    /\ last.detail = T("queued")
    /\ ~pg_up
    /\ next_event = 1
    /\ outbox = << >>

\* C19: the destination of an event is computed by emit from the policy
\* then in force, the stored URL never changes afterwards, and every POST
\* of the event goes to the stored URL, whatever the policy has become.
C19_DestinationFixed ==
    [][/\ \A id \in DOMAIN outbox' \ DOMAIN outbox :
             outbox'[id].webhook_url = WebhookUrl(policy, outbox'[id].event_type)
       /\ \A id \in DOMAIN outbox \cap DOMAIN outbox' :
             outbox'[id].webhook_url = outbox[id].webhook_url
       /\ \A id \in DOMAIN outbox' :
             posts'[id].urls \subseteq {outbox'[id].webhook_url}]_vars

\* An event was retried after a reload changed the mapping of its type:
\* POSTs were issued under both policies and all went to one URL
C19_Witness ==
    \E id \in DOMAIN outbox :
        /\ outbox[id].attempts >= 2
        /\ posts[id].urls = {outbox[id].webhook_url}
        /\ posts[id].resolved =
              {WebhookUrl(PolicyB, outbox[id].event_type),
               WebhookUrl(PolicyC, outbox[id].event_type)}
        /\ WebhookUrl(PolicyB, outbox[id].event_type)
              # WebhookUrl(PolicyC, outbox[id].event_type)

-----------------------------------------------------------------------------
(* The audit ledger *)

MediationEndpoints == {"/claude/ask", "/agent/ask", "/n8n/trigger"}

\* C20: the answer to every call of a mediation endpoint, denial and
\* failure included, comes with exactly one new record in the audit
\* ledger, and no other step changes the ledger.
C20_OneAuditRecordPerCall ==
    [][IF last'.rid # last.rid /\ last'.endpoint \in MediationEndpoints
       THEN audit'.jsonl = audit.jsonl + 1
       ELSE audit' = audit]_vars

-----------------------------------------------------------------------------
(* Side effects and the primary path *)

\* C21: what a call of the assistant endpoint is answered (status code and
\* body) is the same whether the session store and the audit store are
\* reachable during the call or not.
C21_StoreDoesNotReachResponse ==
    \A p \in Purposes, run \in StoreRuns :
        ClaudeAnswer(TRUE, "mallory", p, run) = ClaudeAnswer(FALSE, "mallory", p, run)

-----------------------------------------------------------------------------
(* Denials *)

\* C22: a request denied by enforce_policy is answered 429 with the reason
\* of the denial; no subprocess is started and no POST to the workflow
\* engine is sent, no session is created or updated, no timestamp is added
\* to a rate counter, and the denied request is never dispatched later.
C22_DenialStopsTheCall ==
    [][/\ (gate'.rid # gate.rid /\ gate'.denied) =>
             /\ last'.rid = gate'.rid
             /\ last'.status = 429
             /\ last'.reason = gate'.reason
             /\ procs' = procs
             /\ inflight' = inflight
             /\ dispatched' = dispatched
             /\ sessions' = sessions
             /\ next_uuid' = next_uuid
             /\ \A c \in Callers :
                   /\ Len(rate_counts'[c]) <= Len(rate_counts[c])
                   /\ \A i \in 1..Len(rate_counts'[c]) :
                         \E j \in 1..Len(rate_counts[c]) :
                             rate_counts[c][j] = rate_counts'[c][i]
       /\ (gate.denied /\ gate.rid > 0) =>
             \A r \in inflight' : r.rid # gate.rid]_vars

\* A caller with a session and a call in its rate counter was denied
C22_Witness ==
    /\ gate.denied
    /\ last.rid = gate.rid
    /\ last.status = 429
    /\ rate_counts[gate.caller] # <<>>
    /\ sessions # << >>
    /\ last.endpoint \in {"/claude/ask", "/agent/ask", "/n8n/trigger"}

-----------------------------------------------------------------------------
(* Order of the policy checks *)

\* The four checks on a request of caller c with priority prio, each taken
\* alone in the present state
QuietDenies(c, prio) ==
    /\ IsQuietHours(policy, Hour(hour0, now))
    /\ prio # "critical"
    /\ ~(QuietExempt(GetAgentLimits(policy, c)) \/ c = "dashboard")
GlobalDenies(c) ==
    SumLen(Prune(rate_counts, c, now), Callers) >= GlobalLimit(policy)
CallerDenies(c) ==
    Len(Prune(rate_counts, c, now)[c]) >= CallsPerHour(GetAgentLimits(policy, c))
PriorityDenies(c, prio) ==
    prio \notin PriorityLevels(GetAgentLimits(policy, c))

\* C23: the reason enforce_policy returns is that of the first failing
\* check in the order quiet hours, global rate limit, per-caller rate limit,
\* priority; the request is allowed when none fails.
C23_FirstFailingCheck ==
    [][gate'.rid # gate.rid =>
          LET c == gate'.caller
              prio == gate'.priority
          IN  gate'.reason.kind =
                 IF QuietDenies(c, prio) THEN "quiet_hours"
                 ELSE IF GlobalDenies(c) THEN "global_rate"
                 ELSE IF CallerDenies(c) THEN "agent_rate"
                 ELSE IF PriorityDenies(c, prio) THEN "priority"
                 ELSE "ok"]_vars

\* A request was denied for the global rate limit while the caller's own
\* limit and the priority check would have denied it too
C23_Witness ==
    /\ gate.denied
    /\ gate.t = now
    /\ gate.reason.kind = "global_rate"
    /\ CallerDenies(gate.caller)
    /\ PriorityDenies(gate.caller, gate.priority)

-----------------------------------------------------------------------------
(* Unconfigured callers *)

Unconfigured(c) == ~("per_agent" \in policy.keys /\ c \in DOMAIN policy.per_agent)

\* C24 as stated: outside quiet hours a low or normal request of an
\* unconfigured caller is denied exactly when 5 of its calls were accepted
\* within the trailing hour, and its high and critical requests are denied.
C24_AllowedUpToFive ==
    [][(gate'.rid # gate.rid /\ Unconfigured(gate'.caller)) =>
          /\ gate'.priority \in {"high", "critical"} => gate'.denied
          /\ (/\ gate'.priority \in {"low", "normal"}
              /\ ~IsQuietHours(policy, Hour(hour0, now)))
                => (gate'.denied <=> InWindow(accepted[gate'.caller], now) >= 5)]_vars

\* C24, amended: an unconfigured caller is evaluated with the default
\* limits; its high and critical requests are always denied; outside quiet
\* hours its low or normal request is denied exactly when the rate limiter
\* holds as many timestamps as the global ceiling, or 5 timestamps of the
\* caller within the trailing hour, and then for that reason.
C24_DefaultLimitsApply ==
    [][(gate'.rid # gate.rid /\ Unconfigured(gate'.caller)) =>
          LET c == gate'.caller
          IN  /\ GetAgentLimits(policy, c) = DefaultLimits
              /\ gate'.priority \in {"high", "critical"} => gate'.denied
              /\ (/\ gate'.priority \in {"low", "normal"}
                  /\ ~IsQuietHours(policy, Hour(hour0, now)))
                    => /\ gate'.denied <=>
                            \/ GlobalDenies(c)
                            \/ InWindow(rate_counts[c], now) >= 5
                       /\ gate'.denied =>
                            gate'.reason \in
                               {Reason("global_rate", "", GlobalLimit(policy), ""),
                                Reason("agent_rate", c, 5, "")}]_vars

\* An unconfigured caller had its fifth call of the hour accepted and the
\* next one denied for its rate limit of 5
C24_Witness ==
    /\ Unconfigured(gate.caller)
    /\ gate.denied
    /\ gate.reason = Reason("agent_rate", gate.caller, 5, "")
    /\ gate.priority \in {"low", "normal"}
    /\ InWindow(accepted[gate.caller], gate.t) = 5
    /\ <<gate.caller, "n8n">> \in dispatched

-----------------------------------------------------------------------------
(* Order of delivery *)

\* Between two cycles, a is a pending event that its next failure leaves
\* below the ceiling, and b a pending event emitted after it
OlderAndNewerPending(a, b) ==
    /\ a \in DOMAIN outbox
    /\ b \in DOMAIN outbox
    /\ a < b
    /\ drain.pc = "sleep"
    /\ outbox[a].status = "pending"
    /\ outbox[a].attempts < MAX_ATTEMPTS - 1
    /\ outbox[b].status = "pending"

\* b was POSTed while a was pending; or a did not go on failing
AttemptedAheadOf(a, b) ==
    IF a \notin DOMAIN outbox THEN TRUE
    ELSE IF outbox[a].status = "delivered" THEN TRUE
    ELSE IF b \in DOMAIN posts THEN a \in posts[b].ahead_of
    ELSE FALSE

\* An attempt of a ended in a connection failure
Unreachable(a) ==
    IF a \in DOMAIN outbox THEN outbox[a].last_error = "n8n unreachable" ELSE FALSE

\* b has been POSTed, or is no longer there
Attempted(b) ==
    IF b \in DOMAIN outbox /\ b \in DOMAIN posts THEN posts[b].urls # {} ELSE TRUE

-----------------------------------------------------------------------------
(* Shutdown *)

\* C26: cancelling the drain task, while it sleeps or while a POST is in
\* flight, ends it and changes no row: every status is pending, delivered
\* or failed, the event whose POST was in flight is pending with the
\* attempt count the cycle selected it with, and the ended task changes
\* nothing afterwards.
C26_CleanCancellation ==
    [][/\ (drain.pc # "cancelled" /\ drain'.pc = "cancelled") =>
             /\ outbox' = outbox
             /\ \A id \in DOMAIN outbox' :
                   outbox'[id].status \in {"pending", "delivered", "failed"}
             /\ drain.pc = "post" =>
                   LET row == drain.rows[drain.i]
                   IN  /\ row.id \in DOMAIN outbox'
                       /\ outbox'[row.id].status = "pending"
                       /\ outbox'[row.id].attempts = row.attempts
       /\ drain.pc = "cancelled" =>
             /\ drain' = drain
             /\ posts' = posts
             /\ \A id \in DOMAIN outbox \cap DOMAIN outbox' :
                   outbox'[id] = outbox[id]]_vars

\* The task was cancelled with the POST of the second event of a batch in
\* flight, after the first event had failed once more
C26_Witness ==
    /\ drain.pc = "cancelled"
    /\ drain.i = 2
    /\ Len(drain.rows) = 2
    /\ outbox[drain.rows[1].id].attempts = drain.rows[1].attempts + 1
    /\ outbox[drain.rows[2].id].status = "pending"
    /\ ~posts[drain.rows[2].id].in_cycle

-----------------------------------------------------------------------------
(* The handle of a session *)

\* C27: a session of the assistant has a handle from the step that creates
\* its record, and a handle that is set is never changed by a later step.
C27_HandleImmutable ==
    [][/\ \A sid \in DOMAIN sessions' \ DOMAIN sessions :
             sessions'[sid].session_type = "claude"
                => sessions'[sid].claude_session_id # ""
       /\ \A sid \in DOMAIN sessions :
             sessions[sid].claude_session_id # ""
                => sessions'[sid].claude_session_id = sessions[sid].claude_session_id]_vars

-----------------------------------------------------------------------------
(* The quiet-hours rule *)

\* The hours of the configured window: from start to the hour before end,
\* through midnight when start is after end
WindowHours ==
    LET start == QuietStart(policy)
        end == QuietEnd(policy)
    IN  IF start > end THEN (start..23) \cup (0..(end - 1)) ELSE start..(end - 1)

\* C28: a request is denied for quiet hours exactly when the local hour is
\* in the window, the priority is not critical, and the caller is neither
\* flagged quiet_hours_exempt nor the dashboard.
C28_QuietHoursRule ==
    [][gate'.rid # gate.rid =>
          LET c == gate'.caller
              lim == GetAgentLimits(policy, c)
              flagged == "quiet_hours_exempt" \in lim.keys /\ lim.quiet_hours_exempt
          IN  (gate'.denied /\ gate'.reason = Reason("quiet_hours", "", 0, ""))
                 <=> /\ Hour(hour0, now) \in WindowHours
                     /\ gate'.priority # "critical"
                     /\ ~flagged
                     /\ c # "dashboard"]_vars

\* With quiet hours 09:00-17:00, a request was denied at 16 and the next
\* one, at 17, has passed the gate
C28_Witness ==
    /\ QuietStart(policy) = 9
    /\ QuietEnd(policy) = 17
    /\ Hour(hour0, gate.t) = 17
    /\ ~gate.denied
    /\ gate.rid > last.rid
    /\ last.status = 429
    /\ last.reason.kind = "quiet_hours"

-----------------------------------------------------------------------------
(* The rate-limit decision *)

\* C29: a request that passes the quiet-hours check is denied with the
\* global reason exactly when the calls recorded for all callers within the
\* trailing hour number at least the global ceiling, and otherwise with the
\* caller's reason exactly when the calls recorded for the caller within the
\* trailing hour number at least its ceiling; older timestamps count for
\* neither.
C29_RateLimitRule ==
    [][(gate'.rid # gate.rid /\ gate'.reason.kind # "quiet_hours") =>
          LET c == gate'.caller
              global_limit == GlobalLimit(policy)
              agent_limit == CallsPerHour(GetAgentLimits(policy, c))
              over_global == SumInWindow(rate_counts, Callers, now) >= global_limit
              over_agent == InWindow(rate_counts[c], now) >= agent_limit
          IN  /\ gate'.reason = Reason("global_rate", "", global_limit, "") <=> over_global
              /\ gate'.reason = Reason("agent_rate", c, agent_limit, "")
                    <=> (~over_global /\ over_agent)]_vars

-----------------------------------------------------------------------------
(* Charging *)

\* C30: enforce_policy adds no timestamp to a rate counter; a request that
\* passes it adds exactly one timestamp, the present time, to its caller's
\* counter in the step that dispatches it; a denied request adds none; and
\* no other step, the failure of a dispatched call included, changes a rate
\* counter.
C30_ChargedAtDispatch ==
    [][IF gate'.rid # gate.rid
       THEN LET c == gate'.caller
                e == EnforcePolicy(policy, rate_counts, now, Hour(hour0, now), c,
                                   gate'.priority)
            IN  /\ e.rc \in {rate_counts, Prune(rate_counts, c, now)}
                /\ gate'.denied => rate_counts' = e.rc
                /\ ~gate'.denied =>
                      /\ rate_counts' = [e.rc EXCEPT ![c] = Append(@, now)]
                      /\ \/ \E r \in inflight' \ inflight : r.rid = gate'.rid
                         \/ gate'.endpoint = "/compact"
       ELSE rate_counts' = rate_counts]_vars

\* A dispatched call has failed and its caller's counter still holds the
\* timestamp of that call
C30_Witness ==
    /\ last.rid > 0
    /\ last.status = 502
    /\ last.branch = "timeout"
    /\ \A r \in inflight : r.rid # last.rid
    /\ \E i \in 1..Len(rate_counts[last.caller]) :
           rate_counts[last.caller][i] <= now
    /\ rate_counts[last.caller] = accepted[last.caller]

-----------------------------------------------------------------------------
(* Event outbox: selection, rejected deliveries, row invariants, purge *)

\* A table with more rows to deliver than one batch holds
FullTable ==
    [id \in 1..(BATCH_SIZE + 2) |->
        NewEvent("task.created", WebhookUrl(PolicyB, "task.created"))]

\* The event is one a SELECT of the drain worker returns
Selectable(box, id) ==
    /\ id \in DOMAIN box
    /\ box[id].status = "pending"
    /\ box[id].attempts < MAX_ATTEMPTS

\* The worker starts a cycle / answers the POST of a row in this step
CycleStarts == drain.pc = "sleep" /\ drain'.pc = "post"
PostAnswered == drain.pc = "post" /\ drain' # drain /\ drain'.pc # "cancelled"

\* C31: a cycle selects only events that are pending with attempts below
\* the ceiling, at most BATCH_SIZE of them, oldest first; every POST is for
\* an event that is pending with attempts below the ceiling at that moment
\* (never a delivered or failed one), and for one newer than every event
\* already POSTed in the cycle; of a table with more than BATCH_SIZE rows
\* to deliver the oldest BATCH_SIZE are selected.
C31_BatchSelectionAndOrder ==
    [][/\ CycleStarts =>
              /\ Len(drain'.rows) <= BATCH_SIZE
              /\ \A i \in 1..Len(drain'.rows) : Selectable(outbox, drain'.rows[i].id)
              /\ \A i, j \in 1..Len(drain'.rows) :
                     i < j => drain'.rows[i].id < drain'.rows[j].id
              /\ Len(SelectPending(FullTable)) = BATCH_SIZE
              /\ \A i \in 1..BATCH_SIZE : SelectPending(FullTable)[i].id = i
       /\ PostAnswered =>
              /\ Selectable(outbox, drain.rows[drain.i].id)
              /\ \A a \in DOMAIN posts :
                     posts[a].in_cycle => a < drain.rows[drain.i].id]_vars

\* A cycle left out a failed event and selected the pending one, whose
\* POST is in flight
C31_Witness ==
    /\ drain.pc = "post"
    /\ Len(drain.rows) = 1
    /\ \E a \in DOMAIN outbox :
           /\ a < drain.rows[1].id
           /\ outbox[a].status = "failed"
           /\ posts[a].urls # {}
    /\ Selectable(outbox, drain.rows[1].id)

\* The row whose POST is in flight, how that POST ends in this step, and
\* whether rows of the batch remain after it
InFlight == drain.rows[drain.i].id
Answer == posts'[InFlight].answer
RejectedAnswer == Answer.kind = "status" /\ Answer.code >= 400
RowsRemain == drain.i < Len(drain.rows)

\* C32 as stated: a POST answered with a status code >= 400 adds exactly
\* one to the event's attempt count, records 'HTTP <code>', leaves the event
\* pending (until the sweep that ends the cycle) and is followed by the POST
\* of the next row of the batch; only a connection failure ends a cycle
\* with rows remaining.
C32_RejectedDoesNotAbort ==
    [][PostAnswered =>
          /\ RejectedAnswer =>
                 /\ outbox'[InFlight].attempts = outbox[InFlight].attempts + 1
                 /\ outbox'[InFlight].last_error = "HTTP " \o ToString(Answer.code)
                 /\ outbox'[InFlight].status =
                        IF ~RowsRemain /\ outbox'[InFlight].attempts >= MAX_ATTEMPTS
                        THEN "failed" ELSE "pending"
                 /\ RowsRemain => drain' = Posting(drain.rows, drain.i + 1)
          /\ (RowsRemain /\ drain'.pc = "sleep") => Answer.kind = "connect_error"]_vars

\* C32, amended: while Postgres answers, a POST answered with a status code
\* >= 400 adds exactly one to the event's attempt count, records
\* 'HTTP <code>', leaves the event pending unless it was the last row and
\* the sweep that follows marks it failed at the ceiling, and is followed by
\* the POST of the next row; a cycle ends with rows remaining only after a
\* connection failure or when Postgres is lost, and in the latter case the
\* outbox is unchanged: the attempt is not counted.
C32_RejectedCountedWhileStoreAnswers ==
    [][PostAnswered =>
          /\ (RejectedAnswer /\ pg_up) =>
                 /\ outbox'[InFlight].attempts = outbox[InFlight].attempts + 1
                 /\ outbox'[InFlight].last_error = "HTTP " \o ToString(Answer.code)
                 /\ outbox'[InFlight].status =
                        IF /\ ~RowsRemain
                           /\ pg_up'
                           /\ outbox'[InFlight].attempts >= MAX_ATTEMPTS
                        THEN "failed" ELSE "pending"
                 /\ RowsRemain => drain' = Posting(drain.rows, drain.i + 1)
          /\ ~pg_up => outbox' = outbox /\ drain'.pc = "sleep"
          /\ (RowsRemain /\ drain'.pc = "sleep")
                 => Answer.kind = "connect_error" \/ ~pg_up]_vars

\* The oldest event of a batch was rejected with HTTP 500, is pending with
\* one attempt more, and the POST of the next event is in flight
C32_Witness ==
    /\ drain.pc = "post"
    /\ drain.i = 2
    /\ posts[drain.rows[1].id].in_cycle
    /\ posts[drain.rows[1].id].answer = HttpStatus(500)
    /\ outbox[drain.rows[1].id].status = "pending"
    /\ outbox[drain.rows[1].id].attempts = drain.rows[1].attempts + 1
    /\ outbox[drain.rows[1].id].last_error = "HTTP 500"

-----------------------------------------------------------------------------
(* Sessions *)

\* The invocations whose handler resolved its session in this step
Resolved == {r \in inflight' \ inflight : r.kind \in {"claude", "agent"}}

\* No session is deleted and no message count decreases or changes
\* otherwise than by one resolve
SessionsKept ==
    /\ \A sid \in DOMAIN sessions :
           /\ sid \in DOMAIN sessions'
           /\ sessions'[sid].message_count >= sessions[sid].message_count
           /\ sessions'[sid].last_used >= sessions[sid].last_used
    /\ Resolved = {} => sessions' = sessions

\* What a resolve that reaches the store does to the session
Counted(sid) ==
    /\ sid \in DOMAIN sessions'
    /\ sessions'[sid].last_used = now
    /\ sessions'[sid].message_count =
           IF sid \in DOMAIN sessions THEN sessions[sid].message_count + 1 ELSE 0

\* C33 as stated: every resolve creates the session with message count 0 or
\* adds one to the count of the existing session and sets last-used to the
\* present time; no step deletes a session or lowers a count, and the end
\* of an invocation changes no session.
C33_EveryResolveCounted ==
    [][SessionsKept /\ \A r \in Resolved : Counted(r.session_id)]_vars

\* C33, amended: the same for every resolve made while Postgres answers; a
\* resolve made while it does not leaves the sessions as they are.
C33_ResolveCountedWhileStoreAnswers ==
    [][/\ SessionsKept
       /\ \A r \in Resolved :
              IF pg_up THEN Counted(r.session_id) ELSE sessions' = sessions]_vars

\* A session was resolved twice at different times and its latest
\* invocation timed out
C33_Witness ==
    /\ last.status = 502
    /\ last.session \in DOMAIN sessions
    /\ sessions[last.session].message_count = 1
    /\ sessions[last.session].last_used > 0
    /\ inflight = {}

-----------------------------------------------------------------------------
(* Callbacks of the workflow engine *)

\* The step is the callback of workflow w for target t at priority prio:
\* evaluated by the gate under caller id n8n:w at the endpoint of the
\* target, and when accepted charged to n8n:w alone and dispatched with
\* purpose n8n-callback-w
CallbackGated(w, t, prio) ==
    LET c == "n8n:" \o w
        claude == t = "claude"
        e == EnforcePolicy(policy, rate_counts, now, Hour(hour0, now), c, prio)
    IN  /\ gate' = Gate(ncalls + 1, c, IF claude THEN "/claude/ask" ELSE "/agent/ask",
                        t, prio, now, e)
        /\ \A d \in DOMAIN rate_counts \ {c} : rate_counts'[d] = rate_counts[d]
        /\ IF e.denied
           THEN inflight' = inflight /\ last'.status = 429
           ELSE /\ rate_counts'[c] = Append(e.rc[c], now)
                /\ \E r \in inflight' \ inflight :
                       /\ r.caller = c
                       /\ r.kind = IF claude THEN "claude" ELSE "agent"
                       /\ r.target = t
                       /\ r.purpose = "n8n-callback-" \o w

\* Every callback dispatched in this step runs on a session of its own
\* workflow
OwnSession ==
    \A r \in inflight' \ inflight :
        /\ r.session_id \in DOMAIN sessions'
        /\ sessions'[r.session_id].caller_id = r.caller

CallbackReceived == ncalls' # ncalls

\* C34: a callback of workflow W is evaluated by the policy gate under the
\* caller id n8n:W, with the limits and the rate counter of that id and of
\* no other workflow, goes to the assistant endpoint when its target is the
\* assistant and to the agent endpoint otherwise, with purpose
\* n8n-callback-W, and runs on a session no other workflow uses.
C34_CallbackMediated ==
    [][CallbackReceived =>
          /\ \E w \in CallbackWorkflows, t \in CallbackTargets,
                prio \in {"normal", "high"} : CallbackGated(w, t, prio)
          /\ OwnSession]_vars

\* The columns of every row agree: attempts within 0..MAX_ATTEMPTS, failed
\* only at the ceiling, delivered_at set exactly in the delivered rows
RowsAgree ==
    \A id \in DOMAIN outbox :
        /\ outbox[id].attempts \in 0..MAX_ATTEMPTS
        /\ outbox[id].status \in {"pending", "delivered", "failed"}
        /\ outbox[id].status = "failed" => outbox[id].attempts = MAX_ATTEMPTS
        /\ outbox[id].status = "delivered" <=> outbox[id].delivered_at # -1

\* C35: in every state each event's attempt count is between 0 and the
\* ceiling, a failed event has exactly MAX_ATTEMPTS attempts, an event has
\* a delivered timestamp if and only if its status is delivered, and the
\* step that marks an event delivered leaves its attempt count as it was.
C35_RowInvariants ==
    [][/\ RowsAgree'
       /\ \A id \in DOMAIN outbox \cap DOMAIN outbox' :
              (outbox[id].status # "delivered" /\ outbox'[id].status = "delivered")
                  => outbox'[id].attempts = outbox[id].attempts]_vars

\* An event was delivered at its first POST, another after attempts that
\* failed, and the worker sleeps
C35_Witness ==
    /\ drain.pc = "sleep"
    /\ \E a, b \in DOMAIN outbox :
           /\ outbox[a].status = "delivered"
           /\ outbox[a].attempts = 0
           /\ outbox[a].delivered_at # -1
           /\ outbox[b].status = "delivered"
           /\ outbox[b].attempts = MAX_ATTEMPTS - 1
           /\ posts[b].answer = HttpStatus(399)

-----------------------------------------------------------------------------
(* Policy reload *)

\* With the empty document every caller has the limits of an unconfigured
\* one, the global ceiling is 60 and the quiet window is 23:00-08:00
DefaultsInForce ==
    /\ \A c \in DOMAIN rate_counts :
           /\ CallsPerHour(GetAgentLimits(policy, c)) = 5
           /\ PriorityLevels(GetAgentLimits(policy, c)) = {"low", "normal"}
           /\ ~QuietExempt(GetAgentLimits(policy, c))
    /\ GlobalLimit(policy) = 60
    /\ \A h \in 0..23 : IsQuietHours(policy, h) <=> (h >= 23 \/ h < 8)

\* The decision of the gate for caller c at priority prio under those
\* defaults
DeniedByDefaults(c, prio) ==
    LET h == Hour(hour0, now)
        pruned == Prune(rate_counts, c, now)
    IN  \/ (h >= 23 \/ h < 8) /\ prio # "critical" /\ c # "dashboard"
        \/ SumLen(pruned, DOMAIN pruned) >= 60
        \/ Len(pruned[c]) >= 5
        \/ prio \notin {"low", "normal"}

Reloaded == ncalls' # ncalls /\ last'.rid = ncalls' /\ last'.endpoint = "/policy"
Evaluated == ncalls' # ncalls /\ gate'.rid = ncalls'

\* C36: a reload that fails puts the empty document in force, whatever was
\* loaded before, and leaves the rate counters as they are, as every reload
\* does; while the empty document is in force every request is decided by
\* the defaults (5 calls an hour, priorities low and normal, global ceiling
\* 60, quiet hours 23:00-08:00); the document in force changes only in a
\* reload, and a reload that succeeds puts the document of the file in
\* force.
C36_FailedReloadFallsBack ==
    [][/\ Reloaded =>
              /\ rate_counts' = rate_counts
              /\ last'.detail = T("Failed to load policy") => policy' = EmptyPolicy
              /\ last'.detail = T("Policy loaded") => policy' = PolicyD
       /\ ~Reloaded => policy' = policy
       /\ policy = EmptyPolicy =>
              /\ DefaultsInForce
              /\ Evaluated =>
                     (gate'.denied <=> DeniedByDefaults(gate'.caller, gate'.priority))]_vars

\* After a failed reload alice, whom the discarded document allowed one
\* call an hour, was accepted for a second call within the hour
C36_Witness ==
    /\ policy = EmptyPolicy
    /\ last.endpoint = "/n8n/trigger"
    /\ gate.caller = "alice"
    /\ ~gate.denied
    /\ Len(SelectSeq(rate_counts["alice"], LAMBDA x : x > gate.t - HourTicks)) = 2

-----------------------------------------------------------------------------
(* Session keys *)

\* C37: two different (caller, target, purpose) triples never resolve to
\* the same session id: every invocation runs on a session record created
\* for its own caller and target, and with a conversation handle no
\* invocation of another triple was given.
C37_KeysSeparateTriples ==
    /\ \A r \in inflight :
           r.session_id \in DOMAIN sessions
               => /\ sessions[r.session_id].caller_id = r.caller
                  /\ sessions[r.session_id].target = r.target
    /\ \A r, q \in inflight :
           <<r.caller, r.target, r.purpose>> # <<q.caller, q.target, q.purpose>>
               => r.session_id # q.session_id /\ r.claude_sid # q.claude_sid

-----------------------------------------------------------------------------
(* Purge *)

Purged ==
    ncalls' # ncalls /\ last'.rid = ncalls' /\ last'.endpoint = "/events/delivered"

\* C38: a purge answered 200 deletes exactly the delivered events and
\* leaves every other row as it is, whatever the drain worker is doing; a
\* purge that does not reach Postgres changes nothing; and in no step does
\* an event that is not delivered leave the outbox.
C38_PurgeOnlyDelivered ==
    [][/\ Purged =>
              IF last'.status = 200
              THEN /\ DOMAIN outbox' =
                          {id \in DOMAIN outbox : outbox[id].status # "delivered"}
                   /\ \A id \in DOMAIN outbox' : outbox'[id] = outbox[id]
              ELSE outbox' = outbox
       /\ \A id \in DOMAIN outbox \ DOMAIN outbox' :
              outbox[id].status = "delivered"]_vars

\* A purge ran while a POST was in flight: it deleted the event delivered
\* before and kept the event being POSTed, pending with its attempts
C38_Witness ==
    /\ drain.pc = "post"
    /\ last.endpoint = "/events/delivered"
    /\ last.status = 200
    /\ DOMAIN posts \ DOMAIN outbox # {}
    /\ drain.rows[drain.i].id \in DOMAIN outbox
    /\ outbox[drain.rows[drain.i].id].status = "pending"
    /\ outbox[drain.rows[drain.i].id].attempts >= 1

-----------------------------------------------------------------------------
(* Cost cap *)

====
